---- MODULE Spec2Model ----
(***************************************************************************)
(* Bayesian Temporal Matrix Factorization (experiments/Imputation-BTMF):   *)
(* the array primitives kr_prod, ten2mat, mat2ten and the Gibbs sampler    *)
(* BTMF, as a state machine.                                               *)
(*                                                                         *)
(* Arrays are numpy arrays: a record [shape, data] where shape is the      *)
(* tuple of axis lengths and data maps the C-order (row-major) position of *)
(* an element to its value.  Axis numbers and indices are 0-based as in    *)
(* the source; TLA+ tuples are 1-based, so axis n is shape[n + 1].         *)
(*                                                                         *)
(* Random draws (Wishart, inverse Wishart, Gaussian, Gamma) are            *)
(* nondeterministic choices from a finite support that is an input of the  *)
(* run.  The real-valued conditional means and covariances are not         *)
(* computed; what is modelled of a draw is which state it reads, which     *)
(* terms it includes and which state it writes.                            *)
(***************************************************************************)
EXTENDS Integers, Sequences, FiniteSets, TLC

----------------------------------------------------------------------------
(* numpy index arithmetic *)

RECURSIVE Prod(_)
Prod(s) == IF s = <<>> THEN 1 ELSE Head(s) * Prod(Tail(s))

Size(arr) == Prod(arr.shape)

\* position of the index tuple idx in C order (last axis fastest)
RECURSIVE CIndexAcc(_, _, _)
CIndexAcc(shape, idx, acc) ==
    IF shape = <<>> THEN acc
    ELSE CIndexAcc(Tail(shape), Tail(idx), acc * Head(shape) + Head(idx))

CIndex(shape, idx) == CIndexAcc(shape, idx, 0)

\* position of the index tuple idx in Fortran order (first axis fastest)
RECURSIVE FIndex(_, _)
FIndex(shape, idx) ==
    IF shape = <<>> THEN 0
    ELSE Head(idx) + Head(shape) * FIndex(Tail(shape), Tail(idx))

\* the index tuple at Fortran-order position lin
RECURSIVE FUnravel(_, _)
FUnravel(shape, lin) ==
    IF shape = <<>> THEN <<>>
    ELSE <<lin % Head(shape)>> \o FUnravel(Tail(shape), lin \div Head(shape))

\* the index tuple at C-order position lin
RECURSIVE CUnravel(_, _)
CUnravel(shape, lin) ==
    IF shape = <<>> THEN <<>>
    ELSE LET rest == Prod(Tail(shape))
         IN  <<lin \div rest>> \o CUnravel(Tail(shape), lin % rest)

\* arr[idx]
At(arr, idx) == arr.data[CIndex(arr.shape, idx)]

\* the array of the given shape whose element at idx is f[idx]
MkArray(shape, f(_)) ==
    [shape |-> shape,
     data  |-> [p \in 0..(Prod(shape) - 1) |-> f(CUnravel(shape, p))]]

\* np.zeros(shape)
Zeros(shape) == MkArray(shape, LAMBDA idx : 0)

\* 0, 1, ..., n - 1 as a tuple (range(n))
Range(n) == [k \in 1..n |-> k - 1]

\* a shape tuple in which the entry -1 stands for the length that makes the
\* total number of elements equal to size (numpy's reshape(..., -1))
Infer(shape, size) ==
    LET known == Prod(SelectSeq(shape, LAMBDA x : x # -1))
    IN  [k \in 1..Len(shape) |-> IF shape[k] = -1 THEN size \div known ELSE shape[k]]

\* np.transpose(arr, axes): axis k of the result is axis axes[k] of arr
transpose(arr, axes) ==
    LET n == Len(arr.shape)
        at(idx) == At(arr, [m \in 1..n |-> idx[CHOOSE k \in 1..n : axes[k] = m - 1]])
    IN  MkArray([k \in 1..n |-> arr.shape[axes[k] + 1]], at)

\* np.moveaxis(arr, source, destination): the other axes keep their order
moveaxis(arr, source, destination) ==
    LET rest == SelectSeq(Range(Len(arr.shape)), LAMBDA n : n # source)
    IN  transpose(arr, SubSeq(rest, 1, destination) \o <<source>>
                       \o SubSeq(rest, destination + 1, Len(rest)))

\* np.reshape(arr, shape, order): the elements are read from arr and placed
\* into the result in the same index order, C (last axis fastest) or
\* F (first axis fastest)
reshape(arr, shape, order) ==
    LET new == Infer(shape, Size(arr))
        atF(idx) == At(arr, FUnravel(arr.shape, FIndex(new, idx)))
    IN  IF order = "F" THEN MkArray(new, atF)
        ELSE [shape |-> new, data |-> arr.data]

----------------------------------------------------------------------------
(* Part 1 of the notebook: matrix computation concepts *)

\* np.einsum('ir, jr -> ijr', a, b)
einsum_ir_jr_ijr(a, b) ==
    MkArray(<<a.shape[1], b.shape[1], a.shape[2]>>,
            LAMBDA idx : At(a, <<idx[1], idx[3]>>) * At(b, <<idx[2], idx[3]>>))

\* kr_prod with the row index of b before that of a ('ir, jr -> jir')
kr_prod_Swapped(a, b) ==
    reshape(einsum_ir_jr_ijr(b, a), <<a.shape[1] * b.shape[1], -1>>, "C")

kr_prod(a, b) ==
    reshape(einsum_ir_jr_ijr(a, b), <<a.shape[1] * b.shape[1], -1>>, "C")

ten2mat(tensor, mode) ==
    reshape(moveaxis(tensor, mode, 0), <<tensor.shape[mode + 1], -1>>, "F")

\* mat2ten with the default order of np.reshape
mat2ten_RowMajor(mat, tensor_size, mode) ==
    LET index == <<mode>> \o SelectSeq(Range(Len(tensor_size)), LAMBDA i : i # mode)
    IN  moveaxis(reshape(mat, [k \in 1..Len(index) |-> tensor_size[index[k] + 1]], "C"),
                 0, mode)

mat2ten(mat, tensor_size, mode) ==
    LET index == <<mode>> \o SelectSeq(Range(Len(tensor_size)), LAMBDA i : i # mode)
    IN  moveaxis(reshape(mat, [k \in 1..Len(index) |-> tensor_size[index[k] + 1]], "F"),
                 0, mode)

----------------------------------------------------------------------------
(* Array arithmetic used by BTMF *)

\* the index tuples of an array
Indices(arr) == {CUnravel(arr.shape, p) : p \in 0..(Size(arr) - 1)}

\* a + b, elementwise, for arrays of one shape (the += of the running sums)
ArrAdd(a, b) == [shape |-> a.shape, data |-> [p \in DOMAIN a.data |-> a.data[p] + b.data[p]]]

\* a - b, elementwise, for arrays of one shape
ArrSub(a, b) == [shape |-> a.shape, data |-> [p \in DOMAIN a.data |-> a.data[p] - b.data[p]]]

RECURSIVE SumTo(_, _)
\* f(0) + ... + f(n - 1)
SumTo(f(_), n) == IF n = 0 THEN 0 ELSE SumTo(f, n - 1) + f(n - 1)

\* mat.T of a 2-d array
T(mat) == transpose(mat, <<1, 0>>)

\* np.matmul(a, b) for a 2-d a and a 2-d or 1-d b
matmul(a, b) ==
    IF Len(b.shape) = 1
    THEN MkArray(<<a.shape[1]>>,
                 LAMBDA idx : SumTo(LAMBDA k : At(a, <<idx[1], k>>) * At(b, <<k>>), a.shape[2]))
    ELSE MkArray(<<a.shape[1], b.shape[2]>>,
                 LAMBDA idx : SumTo(LAMBDA k : At(a, <<idx[1], k>>) * At(b, <<k, idx[2]>>),
                                    a.shape[2]))

\* the row number numpy uses for index r of an axis of length n: a negative
\* index counts from the end
Wrap(r, n) == IF r < 0 THEN r + n ELSE r

\* whether numpy accepts r as an index of an axis of length n (IndexError
\* otherwise)
InRange(r, n) == -n <= r /\ r < n

\* mat[rows, :] for a tuple of row numbers (integer-array indexing)
TakeRows(mat, rows) ==
    MkArray(<<Len(rows), mat.shape[2]>>,
            LAMBDA idx : At(mat, <<Wrap(rows[idx[1] + 1], mat.shape[1]), idx[2]>>))

\* mat[r, :] of a 2-d array
Row(mat, r) == MkArray(<<mat.shape[2]>>, LAMBDA idx : At(mat, <<Wrap(r, mat.shape[1]), idx[1]>>))

\* mat[from : to, :] for 0 <= from and to = mat.shape[0]: the empty slice when
\* from is not less than to
RowSlice(mat, from, to) ==
    MkArray(<<IF from < to THEN to - from ELSE 0, mat.shape[2]>>,
            LAMBDA idx : At(mat, <<idx[1] + from, idx[2]>>))

\* mat with row r replaced by the 1-d array vec (mat[r, :] = vec)
SetRow(mat, r, vec) ==
    MkArray(mat.shape, LAMBDA idx : IF idx[1] = r THEN At(vec, <<idx[2]>>) ELSE At(mat, idx))

\* tensor[:, :, k] of a 3-d array
Slab(tensor, k) ==
    MkArray(<<tensor.shape[1], tensor.shape[2]>>, LAMBDA idx : At(tensor, idx \o <<k>>))

\* the arrays of a shape with elements in the set S
Arrays(shape, S) == [shape : {shape}, data : [0..(Prod(shape) - 1) -> S]]

RECURSIVE SeqMax(_)
SeqMax(s) == IF Len(s) = 1 THEN s[1]
             ELSE LET m == SeqMax(Tail(s)) IN IF s[1] > m THEN s[1] ELSE m

RECURSIVE SeqMin(_)
SeqMin(s) == IF Len(s) = 1 THEN s[1]
             ELSE LET m == SeqMin(Tail(s)) IN IF s[1] < m THEN s[1] ELSE m

----------------------------------------------------------------------------
(* Floating-point results of divisions, as exact fractions <<n, d>> in      *)
(* lowest terms with d >= 0; <<1, 0>> and <<-1, 0>> are +inf and -inf and   *)
(* <<0, 0>> is nan (numpy divides by zero without raising).                 *)

RECURSIVE Gcd(_, _)
Gcd(a, b) == IF b = 0 THEN a ELSE Gcd(b, a % b)

Abs(x) == IF x < 0 THEN -x ELSE x

Sign(x) == IF x < 0 THEN -1 ELSE IF x > 0 THEN 1 ELSE 0

Frac(n, d) ==
    IF d = 0 THEN <<Sign(n), 0>>
    ELSE LET g == Gcd(Abs(n), Abs(d)) IN <<(Sign(d) * n) \div g, Abs(d) \div g>>

QInt(x) == <<x, 1>>

QAdd(a, b) ==
    IF a[2] = 0 /\ b[2] = 0 THEN (IF a[1] = b[1] THEN a ELSE <<0, 0>>)
    ELSE IF a[2] = 0 THEN a
    ELSE IF b[2] = 0 THEN b
    ELSE Frac(a[1] * b[2] + b[1] * a[2], a[2] * b[2])

QNeg(a) == <<-a[1], a[2]>>

QSub(a, b) == QAdd(a, QNeg(b))

QMul(a, b) == Frac(a[1] * b[1], a[2] * b[2])

QDiv(a, b) == QMul(a, Frac(b[2], b[1]))

QAbs(a) == <<Abs(a[1]), a[2]>>

QFinite(a) == a[2] # 0

\* arr / n, elementwise true division
ArrDiv(arr, n) == [shape |-> arr.shape, data |-> [p \in DOMAIN arr.data |-> Frac(arr.data[p], n)]]

\* the sum of f(x) over the finite set S, as a fraction
RECURSIVE QSum(_, _)
QSum(f(_), S) ==
    IF S = {} THEN QInt(0)
    ELSE LET x == CHOOSE y \in S : TRUE IN QAdd(f(x), QSum(f, S \ {x}))

----------------------------------------------------------------------------
(* Part 2 of the notebook: BTMF(dense_mat, sparse_mat, init, rank,          *)
(* time_lags, maxiter1, maxiter2)                                           *)

VARIABLES
    dense_mat, sparse_mat, init, rank, time_lags, maxiter1, maxiter2,  \* the arguments
    support,        \* what the sampling routines can return: [normal, positive]
    pc,             \* the statement BTMF is at
    W, X,           \* the arrays init["W"] and init["X"], updated in place
    d, dim1, dim2, pos, position, binary_mat,
    tau, Sigma, A,
    W_plus, X_plus, X_new_plus, A_plus, mat_hat_plus,
    iters, i, t,    \* the loop counters
    mat_hat, X_new, rmse,
    stdout,         \* what has been printed, one entry per print block
    ret,            \* the returned tuple
    xdraw,          \* the terms and the rows of X the last X[t] draw used
    draws,          \* the random draws of the current iteration, in order
    n_plus,         \* how often each running sum has been added to
    sample,         \* the sums of the end-of-iteration values over the collection window
    alg,            \* the operands and results of the array primitives
    var3, var4,     \* the data terms of the conditional precisions and means
    factored,       \* the matrices that have been inverted or factorized
    rng             \* the stream of np.random: what has been and will be drawn

vars == <<dense_mat, sparse_mat, init, rank, time_lags, maxiter1, maxiter2, support,
          pc, W, X, d, dim1, dim2, pos, position, binary_mat, tau, Sigma, A,
          W_plus, X_plus, X_new_plus, A_plus, mat_hat_plus, iters, i, t,
          mat_hat, X_new, rmse, stdout, ret, xdraw, draws, n_plus, sample, alg,
          var3, var4, factored, rng>>

args == <<dense_mat, sparse_mat, init, rank, time_lags, maxiter1, maxiter2, support>>

setup == <<d, dim1, dim2, pos, position, binary_mat>>

sums == <<W_plus, X_plus, X_new_plus, A_plus, mat_hat_plus, n_plus>>

\* a progress line is printed at every PrintEvery-th iteration
PrintEvery == 200

\* the final summary is printed for runs of at least FinalMin iterations
FinalMin == 100

NoArray == Zeros(<<0>>)

\* the iteration (counted from 1) the loop is in
Iteration == iters + 1

\* iteration n belongs to the collection window of the run
IsCollection(n) == n > maxiter1 - maxiter2

\* the arguments of a call of BTMF, before its first statement
Start(dm, sm, in, r, tl, m1, m2, sup) ==
    /\ dense_mat = dm /\ sparse_mat = sm /\ init = in /\ rank = r
    /\ time_lags = tl /\ maxiter1 = m1 /\ maxiter2 = m2 /\ support = sup
    /\ W = NoArray /\ X = NoArray
    /\ d = 0 /\ dim1 = 0 /\ dim2 = 0
    /\ pos = {} /\ position = {} /\ binary_mat = NoArray
    /\ tau = 0 /\ Sigma = NoArray /\ A = NoArray
    /\ W_plus = NoArray /\ X_plus = NoArray /\ X_new_plus = NoArray
    /\ A_plus = NoArray /\ mat_hat_plus = NoArray
    /\ iters = 0 /\ i = 0 /\ t = 0
    /\ mat_hat = NoArray /\ X_new = NoArray /\ rmse = <<0, 0>>
    /\ stdout = <<>>
    /\ ret = [mat_hat |-> NoArray, W |-> NoArray, X_new |-> NoArray, A |-> NoArray]
    /\ xdraw = [t |-> -1, backward |-> FALSE, index |-> <<>>, reads |-> {},
                regularized |-> FALSE, lagged |-> <<>>, fresh |-> {},
                precision |-> [var3 |-> 0, Mt |-> 0, Lambda_x |-> 0, eye |-> 0]]
    /\ draws = <<>>
    /\ n_plus = [W |-> 0, A |-> 0, X_new |-> 0, mat_hat |-> 0]
    /\ sample = [n |-> 0, W |-> NoArray, A |-> NoArray, X_new |-> NoArray,
                 mat_hat |-> NoArray]
    /\ var3 = NoArray /\ var4 = NoArray
    /\ factored = {}

\* line 283 without the test of dense_mat
HeldOut_Unobserved(dm, sm) == {idx \in Indices(sm) : At(sm, idx) = 0}

\* line 283 without the test of sparse_mat
HeldOut_Known(dm, sm) == {idx \in Indices(sm) : At(dm, idx) # 0}

\* np.where((dense_mat != 0) & (sparse_mat == 0))
HeldOut(dm, sm) == {idx \in Indices(sm) : At(dm, idx) # 0 /\ At(sm, idx) = 0}

\* np.where(sparse_mat != 0)
Observed(sm) == {idx \in Indices(sm) : At(sm, idx) # 0}

\* binary_mat = np.zeros((dim1, dim2)); binary_mat[position] = 1
BinaryMat(shape, where) == MkArray(shape, LAMBDA idx : IF idx \in where THEN 1 ELSE 0)

\* what a call that has not returned has returned and printed
NoOutcome == [ret |-> [mat_hat |-> NoArray, W |-> NoArray, X_new |-> NoArray,
                       A |-> NoArray],
              stdout |-> <<>>]

\* the stream of np.random in a call made from a state of the stream that
\* nobody recorded: any value of a routine's support can come next
Unseeded == [mode |-> "free", tape |-> <<>>, at |-> 0, first |-> NoOutcome]

\* the generators when mvnrnd draws from a generator of its own
Generator_Own(routine) == IF routine = "mvnrnd" THEN "fresh" ELSE "np.random"

\* lines 33, 256, 308, 330, 375: the generator a sampling routine draws from.
\* mvnrnd is numpy.random.multivariate_normal, mnrnd calls np.random.rand,
\* tau comes from np.random.gamma, and scipy's wishart and invwishart with
\* seed = None use the RandomState singleton of np.random
Generator(routine) == "np.random"

\* the values the k-th next draw can return (k = 0: the next one) when the
\* routine's support is S: a stream that is replayed returns what it returned
\* at this place before
Stream(routine, k, S) ==
    IF rng.mode = "replay" /\ Generator(routine) = "np.random"
    THEN {rng.tape[rng.at + k + 1]} \cap S
    ELSE S

\* the stream after the draws that returned the given values
Consumed(values) ==
    CASE rng.mode = "free"   -> rng
      [] rng.mode = "record" -> [rng EXCEPT !.tape = @ \o values, !.at = @ + Len(values)]
      [] rng.mode = "replay" -> [rng EXCEPT !.at = @ + Len(values)]

\* whether the matrix handed to inv or cholesky at a site of the code is
\* first replaced by (M + M.T) / 2: lines 257-258, 317, 362, 364 pass the
\* matrix as it was built
Symmetrized(site) == FALSE

\* the record of one inversion or factorization
Factored(site, by) == [site |-> site, by |-> by, symmetrized |-> Symmetrized(site)]

\* c * arr for a scalar c
Scaled(c, arr) == [shape |-> arr.shape, data |-> [p \in DOMAIN arr.data |-> c * arr.data[p]]]

\* line 314 with the reference matrix in place of the observed one
WMean_Dense == Scaled(tau, matmul(T(X), T(dense_mat)))

\* lines 311, 314: tau * np.matmul(var1, sparse_mat.T), the data term of var4
WMean == Scaled(tau, matmul(T(X), T(sparse_mat)))

\* lines 311-313 with every entry counted as observed
WPrecision_Unmasked ==
    Scaled(tau, reshape(matmul(kr_prod(T(X), T(X)),
                               T(MkArray(binary_mat.shape, LAMBDA idx : 1))),
                        <<rank, rank, dim1>>, "C"))

\* lines 311-313: tau * np.matmul(var2, binary_mat.T).reshape([rank, rank, dim1]),
\* the data term of var3
WPrecision ==
    Scaled(tau, reshape(matmul(kr_prod(T(X), T(X)), T(binary_mat)),
                        <<rank, rank, dim1>>, "C"))

\* lines 336, 339: tau * np.matmul(var1, sparse_mat)
XMean == Scaled(tau, matmul(T(W), sparse_mat))

\* lines 336-338 with the initial value of tau
XPrecision_InitialTau ==
    Scaled(1, reshape(matmul(kr_prod(T(W), T(W)), binary_mat),
                      <<rank, rank, dim2>>, "C"))

\* lines 336-338: tau * np.matmul(var2, binary_mat).reshape([rank, rank, dim2]),
\* the data term of var3
XPrecision ==
    Scaled(tau, reshape(matmul(kr_prod(T(W), T(W)), binary_mat),
                        <<rank, rank, dim2>>, "C"))

\* lines 278-279 with the factors copied (W = init["W"].copy())
Bound_Copied == [W |-> "copy", X |-> "copy"]

\* lines 278-279: the objects the names W and X are bound to, the arrays of
\* the caller's dictionary
Bound == [W |-> "init[W]", X |-> "init[X]"]

\* what the caller's arrays init["W"] and init["X"] hold: once the names W and
\* X are bound to them, lines 318 and 365 assign their rows in place
Caller ==
    [W |-> IF Bound.W = "init[W]" /\ pc # "entry" THEN W ELSE init.W,
     X |-> IF Bound.X = "init[X]" /\ pc # "entry" THEN X ELSE init.X]

\* lines 278-303: the aliases of the initial factors, the shapes, the masks,
\* the hyperparameters and the zeroed running sums
Setup ==
    /\ pc = "entry"
    /\ W' = init.W
    /\ X' = init.X
    /\ d' = Len(time_lags)
    /\ dim1' = sparse_mat.shape[1]
    /\ dim2' = sparse_mat.shape[2]
    /\ pos' = HeldOut(dense_mat, sparse_mat)
    /\ position' = Observed(sparse_mat)
    /\ binary_mat' = BinaryMat(sparse_mat.shape, Observed(sparse_mat))
    /\ tau' = 1
    /\ W_plus' = Zeros(<<dim1', rank>>)
    /\ X_plus' = Zeros(<<dim2', rank>>)
    /\ X_new_plus' = Zeros(<<dim2' + 1, rank>>)
    /\ A_plus' = Zeros(<<rank, rank, d'>>)
    /\ mat_hat_plus' = Zeros(<<dim1', dim2' + 1>>)
    /\ sample' = [n |-> 0, W |-> W_plus', A |-> A_plus', X_new |-> X_new_plus',
                  mat_hat |-> mat_hat_plus']
    /\ iters' = 0
    /\ pc' = IF 0 < maxiter1 THEN "hyper" ELSE "final"
    /\ UNCHANGED <<args, Sigma, A, i, t, mat_hat, X_new, rmse, stdout, ret, xdraw,
                   draws, n_plus, alg,
                   var3, var4, factored, rng>>

\* lines 308-309: the sampling routines of the hyperparameter update, in the
\* order they are called
HyperDraws == <<"wishart", "mvnrnd">>

\* lines 305-315: the Wishart draw of the precision and the Gaussian draw of
\* the mean of the rows of W, from the current W, and the terms var3 and
\* var4 of the conditionals of all rows of W (their hyperparameter parts
\* are real-valued and are not computed)
SampleHyper ==
    /\ pc = "hyper"
    /\ draws' = HyperDraws
    /\ rng' = Consumed(<<NoArray, NoArray>>)
    /\ factored' = factored \cup {Factored("hyper", "inv")}
    /\ var3' = WPrecision
    /\ var4' = WMean
    /\ i' = 0
    /\ pc' = IF 0 < dim1 THEN "Wrow" ELSE "Wplus"
    /\ UNCHANGED <<args, setup, W, X, tau, Sigma, A, sums, iters, t, mat_hat, X_new,
                   rmse, stdout, ret, xdraw, sample, alg>>

\* lines 316-318: the draw of row i of W
SampleWRow ==
    /\ pc = "Wrow"
    /\ \E vec \in Stream("mvnrnd", 0, Arrays(<<rank>>, support.normal)) :
          /\ W' = SetRow(W, i, vec)
          /\ rng' = Consumed(<<vec>>)
    /\ factored' = factored \cup {Factored("W", "inv")}
    /\ draws' = Append(draws, "mvnrnd")
    /\ i' = i + 1
    /\ pc' = IF i + 1 < dim1 THEN "Wrow" ELSE "Wplus"
    /\ UNCHANGED <<args, setup, X, tau, Sigma, A, sums, iters, t, mat_hat, X_new,
                   rmse, stdout, ret, xdraw, sample, alg, var3, var4>>

\* line 319 with the loop index taken for the iteration number
CollectW_Late == iters > maxiter1 - maxiter2

\* line 319
CollectW == iters + 1 > maxiter1 - maxiter2

\* lines 319-320
AccumulateW ==
    /\ pc = "Wplus"
    /\ IF CollectW
       THEN /\ W_plus' = ArrAdd(W_plus, W)
            /\ n_plus' = [n_plus EXCEPT !.W = @ + 1]
       ELSE UNCHANGED <<W_plus, n_plus>>
    /\ pc' = "prior"
    /\ UNCHANGED <<args, setup, W, X, tau, Sigma, A, X_plus, X_new_plus, A_plus,
                   mat_hat_plus, iters, i, t, mat_hat, X_new, rmse, stdout, ret, xdraw,
                   draws, sample, alg,
                   var3, var4, factored, rng>>

\* the n x n diagonal matrices with diagonal elements in S: the positive
\* definite matrices a Wishart or inverse Wishart draw is taken from
Diagonal(n, S) ==
    {MkArray(<<n, n>>, LAMBDA idx : IF idx[1] = idx[2] THEN dg[idx[1]] ELSE 0) :
        dg \in [0..(n - 1) -> S]}

\* line 332 with the loop index taken for the iteration number
CollectA_Late == iters > maxiter1 - maxiter2

\* line 332
CollectA == iters + 1 > maxiter1 - maxiter2

\* line 325: the rows of X that make up row t - max(time_lags) of Q_mat
LaggedRows(tt) == [k \in 1..d |-> tt - time_lags[k]]

\* lines 325, 346, 358: X[t - time_lags, :].reshape([rank * d]) for the
\* array Xc that the name X is bound to
DesignRow(Xc, tt) == reshape(TakeRows(Xc, LaggedRows(tt)), <<rank * d>>, "C")

\* line 322: Z_mat = X[np.max(time_lags) : dim2, :]
Response == RowSlice(X, SeqMax(time_lags), dim2)

\* lines 323-325: Q_mat, one row per time step from max(time_lags) on
DesignMatrix ==
    MkArray(<<dim2 - SeqMax(time_lags), rank * d>>,
            LAMBDA idx : At(DesignRow(X, idx[1] + SeqMax(time_lags)), <<idx[2]>>))

\* line 331 with the sample folded in the default order of np.reshape
FoldCoefficients_RowMajor(sampled) == mat2ten_RowMajor(T(sampled), <<rank, rank, d>>, 0)

\* line 331: the (rank * d) x rank sample of mnrnd, transposed and folded
\* into the rank x rank x d coefficient tensor
FoldCoefficients(sampled) == mat2ten(T(sampled), <<rank, rank, d>>, 0)

\* lines 330-331 with the coefficients drawn before the covariance
PriorDraws_CoefficientsFirst == <<"mnrnd", "invwishart">>

\* lines 330-331: the sampling routines of the temporal-prior update, in the
\* order they are called
PriorDraws == <<"invwishart", "mnrnd">>

\* lines 322-339: the inverse Wishart draw of Sigma, the matrix normal draw
\* of the coefficients, the running sum of A, and the terms var3 and var4 of
\* the conditionals of all rows of X; np.zeros raises ValueError for the
\* negative number of rows of Q_mat when max(time_lags) exceeds dim2
SamplePrior ==
    /\ pc = "prior"
    /\ IF dim2 - SeqMax(time_lags) < 0
       THEN /\ pc' = "ValueError"
            /\ UNCHANGED <<Sigma, A, draws, rng, factored, var3, var4, A_plus, n_plus, t>>
       ELSE /\ \E S \in Stream("invwishart", 0, Diagonal(rank, support.positive)) :
               \E sampled \in Stream("rand", 1, Arrays(<<rank * d, rank>>, support.normal)) :
                  /\ Sigma' = S
                  /\ A' = FoldCoefficients(sampled)
                  /\ rng' = Consumed(<<S, sampled>>)
            /\ draws' = draws \o PriorDraws
            /\ factored' = factored \cup {Factored("prior", "inv"),
                                          Factored("mnrnd U", "cholesky"),
                                          Factored("mnrnd V", "cholesky")}
            /\ IF CollectA
               THEN /\ A_plus' = ArrAdd(A_plus, A')
                    /\ n_plus' = [n_plus EXCEPT !.A = @ + 1]
               ELSE UNCHANGED <<A_plus, n_plus>>
            /\ var3' = XPrecision
            /\ var4' = XMean
            /\ t' = 0
            /\ pc' = IF 0 < dim2 THEN "Xrow" ELSE "extend"
    /\ UNCHANGED <<args, setup, W, X, tau, W_plus, X_plus, X_new_plus, mat_hat_plus,
                   iters, i, mat_hat, X_new, rmse, stdout, ret, xdraw, sample, alg>>

\* lines 343-346 with t <= np.max(time_lags) as the test
HasBackward_Strict(tt) == ~(tt <= SeqMax(time_lags))

\* lines 343-346: X[t] has a backward VAR term (Qt is not zero)
HasBackward(tt) == ~(tt < SeqMax(time_lags))

\* line 346: the rows of X the backward term reads
BackwardRows(tt) == IF HasBackward(tt) THEN {LaggedRows(tt)[k] : k \in 1..d} ELSE {}

\* line 351 without the lower bound on t + time_lags
FilteredIndex_Upper(tt) ==
    SelectSeq(Range(d), LAMBDA k : tt + time_lags[k + 1] < dim2)

\* line 351: np.where((t + time_lags >= np.max(time_lags)) & (t + time_lags < dim2))
FilteredIndex(tt) ==
    SelectSeq(Range(d), LAMBDA k : /\ tt + time_lags[k + 1] >= SeqMax(time_lags)
                                   /\ tt + time_lags[k + 1] < dim2)

\* lines 347-351 with t >= np.max(time_lags) alone as the test of line 348
ForwardIndex_Late(tt) ==
    IF tt < dim2 - SeqMin(time_lags)
    THEN IF tt >= SeqMax(time_lags)
         THEN Range(d)
         ELSE FilteredIndex(tt)
    ELSE <<>>

\* lines 347-351: the lag numbers k whose forward term is added for X[t]
ForwardIndex(tt) ==
    IF tt < dim2 - SeqMin(time_lags)
    THEN IF tt >= SeqMax(time_lags) /\ tt < dim2 - SeqMax(time_lags)
         THEN Range(d)
         ELSE FilteredIndex(tt)
    ELSE <<>>

\* lines 357-358: the rows of X the forward term of lag number k reads
ForwardRows(tt, k) ==
    {tt + time_lags[k + 1]} \cup {LaggedRows(tt + time_lags[k + 1])[j] : j \in 1..d}

\* lines 361-364 with t <= np.max(time_lags) as the test
Regularized_Inclusive(tt) == tt <= SeqMax(time_lags)

\* lines 361-364: identity replaces Lambda_x in the precision of X[t]
Regularized(tt) == tt < SeqMax(time_lags)

\* lines 362, 364: the matrix that is inverted for the draw of X[t], as the
\* multiples of var3[:, :, t], Mt, Lambda_x and np.eye(rank) it is the sum of
Precision(tt) ==
    IF Regularized(tt)
    THEN [var3 |-> 1, Mt |-> 1, Lambda_x |-> -1, eye |-> 1]
    ELSE [var3 |-> 1, Mt |-> 1, Lambda_x |-> 0, eye |-> 0]

\* lines 344-346: ten2mat(A, 0) times the lagged rows of X, the vector that
\* Lambda_x is multiplied with to give Qt, and zero where X[t] has no
\* backward term
Predicted(Xc, tt) ==
    IF HasBackward(tt) THEN matmul(ten2mat(A, 0), DesignRow(Xc, tt)) ELSE Zeros(<<rank>>)

\* lines 355-356 without the assignment to the slab
ZeroSlab_Kept(tensor, k) == tensor

\* lines 355-356: A0 = A.copy(); A0[:, :, k] = 0
ZeroSlab(tensor, k) ==
    MkArray(tensor.shape, LAMBDA idx : IF idx[3] = k THEN 0 ELSE At(tensor, idx))

\* lines 357-358: var5 of the forward term of lag number k
Residual(Xc, tt, k) ==
    ArrSub(Row(Xc, tt + time_lags[k + 1]),
           matmul(ten2mat(ZeroSlab(A, k), 0), DesignRow(Xc, tt + time_lags[k + 1])))

\* lines 340, 365 for a sweep that draws every row from a copy of X made
\* before the loop
Overwritten_Snapshot(tt) == {}

\* lines 340, 365: the rows of X that the passes of the loop before the one
\* for X[t] have assigned
Overwritten(tt) == {s \in 0..(dim2 - 1) : s < tt}

\* lines 340-365: the indices of the rows of X read for the draw of X[t]
RowsRead(tt) ==
    BackwardRows(tt)
    \cup UNION {ForwardRows(tt, ForwardIndex(tt)[n]) : n \in 1..Len(ForwardIndex(tt))}

\* lines 355-356 with A0 = A, a second name of the tensor A, in place of
\* A0 = A.copy()
ZeroedInA_Shared(tt) == {ForwardIndex(tt)[n] : n \in 1..Len(ForwardIndex(tt))}

\* lines 355-356: the slabs of A itself that A0[:, :, k] = 0 sets to zero in
\* the pass for X[t]: none, A0 is a copy
ZeroedInA(tt) == {}

\* lines 352-359: A after the forward terms of X[t]
AfterForward(tt) ==
    MkArray(A.shape, LAMBDA idx : IF idx[3] \in ZeroedInA(tt) THEN 0 ELSE At(A, idx))

\* lines 340-365: the draw of row t of X; an index outside the array ends
\* the call with an IndexError
SampleXRow ==
    /\ pc = "Xrow"
    /\ xdraw' = [t |-> t, backward |-> HasBackward(t), index |-> ForwardIndex(t),
                 reads |-> RowsRead(t), regularized |-> Regularized(t),
                 lagged |-> IF HasBackward(t) THEN LaggedRows(t) ELSE <<>>,
                 fresh |-> {Wrap(r, dim2) : r \in RowsRead(t)} \cap Overwritten(t),
                 precision |-> Precision(t)]
    /\ IF \A r \in RowsRead(t) : InRange(r, dim2)
       THEN /\ \E vec \in Stream("mvnrnd", 0, Arrays(<<rank>>, support.normal)) :
                  /\ X' = SetRow(X, t, vec)
                  /\ rng' = Consumed(<<vec>>)
            /\ factored' = factored \cup {Factored("X", "inv")}
            /\ draws' = Append(draws, "mvnrnd")
            /\ t' = t + 1
            /\ pc' = IF t + 1 < dim2 THEN "Xrow" ELSE "extend"
       ELSE /\ pc' = "IndexError"
            /\ UNCHANGED <<X, draws, t, rng, factored>>
    /\ A' = AfterForward(t)
    /\ UNCHANGED <<args, setup, W, tau, Sigma, sums, iters, i, mat_hat, X_new,
                   rmse, stdout, ret, sample, alg, var3, var4>>

\* line 369 for a collection window that is not longer than the run
CollectX_Bounded == iters + 1 > maxiter1 - maxiter2 /\ maxiter2 <= maxiter1

\* line 369
CollectX == iters + 1 > maxiter1 - maxiter2

\* line 371 with the lags counted back from the length of X_new
ForecastRows_FromEnd == [k \in 1..d |-> dim2 + 1 - time_lags[k]]

\* line 371: the rows of X_new the forecast row is computed from
ForecastRows == [k \in 1..d |-> dim2 - time_lags[k]]

\* lines 368-371: X with the one-step-ahead forecast appended as row dim2
Extended(Xc, Ac) ==
    LET copied == MkArray(<<dim2 + 1, rank>>,
                          LAMBDA idx : IF idx[1] < dim2 THEN At(Xc, idx) ELSE 0)
        lagged == reshape(TakeRows(copied, ForecastRows), <<rank * d>>, "C")
    IN  SetRow(copied, dim2, matmul(ten2mat(Ac, 0), lagged))

\* lines 366-373: the reconstruction, the extended X and their running sums
Extend ==
    /\ pc = "extend"
    /\ mat_hat' = matmul(W, T(X))
    /\ IF CollectX
       THEN IF \A k \in 1..d : InRange(ForecastRows[k], dim2 + 1)
            THEN /\ X_new' = Extended(X, A)
                 /\ X_new_plus' = ArrAdd(X_new_plus, X_new')
                 /\ mat_hat_plus' = ArrAdd(mat_hat_plus, matmul(W, T(X_new')))
                 /\ n_plus' = [n_plus EXCEPT !.X_new = @ + 1, !.mat_hat = @ + 1]
                 /\ pc' = "tau"
            ELSE /\ pc' = "IndexError"
                 /\ UNCHANGED <<X_new, X_new_plus, mat_hat_plus, n_plus>>
       ELSE /\ X_new' = Zeros(<<dim2 + 1, rank>>)
            /\ pc' = "tau"
            /\ UNCHANGED <<X_new_plus, mat_hat_plus, n_plus>>
    /\ UNCHANGED <<args, setup, W, X, tau, Sigma, A, W_plus, X_plus, A_plus, iters, i, t,
                   rmse, stdout, ret, xdraw, draws, sample, alg,
                   var3, var4, factored, rng>>

\* lines 377, 389 with a guard that returns 0 when nothing is held out
MeanSquare_Guarded(hat) ==
    IF pos = {} THEN QInt(0)
    ELSE QDiv(QSum(LAMBDA idx : QMul(QSub(QInt(At(dense_mat, idx)), At(hat, idx)),
                                     QSub(QInt(At(dense_mat, idx)), At(hat, idx))), pos),
              QInt(Cardinality(pos)))

\* lines 377, 389: sqrt(sum((dense_mat[pos] - hat[pos]) ** 2) / n), kept as
\* the fraction under the root; hat holds fractions
MeanSquare(hat) ==
    QDiv(QSum(LAMBDA idx : QMul(QSub(QInt(At(dense_mat, idx)), At(hat, idx)),
                                QSub(QInt(At(dense_mat, idx)), At(hat, idx))), pos),
         QInt(Cardinality(pos)))

\* line 388: sum(abs(dense_mat[pos] - hat[pos]) / dense_mat[pos]) / n
MeanAbsPercent(hat) ==
    QDiv(QSum(LAMBDA idx : QDiv(QAbs(QSub(QInt(At(dense_mat, idx)), At(hat, idx))),
                                QInt(At(dense_mat, idx))), pos),
         QInt(Cardinality(pos)))

\* line 293: alpha = 1e-6
alpha == Frac(1, 1000000)

\* line 294: beta = 1e-6
beta == Frac(1, 1000000)

\* line 375 without the prior shape
GammaShape_Data == Frac(Cardinality(position), 2)

\* line 375: alpha + 0.5 * sparse_mat[position].shape[0]
GammaShape == QAdd(alpha, Frac(Cardinality(position), 2))

\* line 376: beta + 0.5 * np.sum((sparse_mat - mat_hat)[position] ** 2)
GammaRate ==
    QAdd(beta,
         QMul(Frac(1, 2),
              QSum(LAMBDA idx : QInt((At(sparse_mat, idx) - At(mat_hat, idx))
                                     * (At(sparse_mat, idx) - At(mat_hat, idx))),
                   position)))

\* a fraction that is finite and greater than zero
QPositive(a) == a[1] > 0 /\ a[2] > 0

\* np.random.gamma(shape, scale): a positive number when both parameters
\* are positive, and 0 when one of them is 0
GammaDraws(shape, scale) ==
    IF QPositive(shape) /\ QPositive(scale) THEN support.positive ELSE {0}

\* line 378 without the burn-in test
PrintsProgress_Always == (iters + 1) % PrintEvery = 0

\* line 378
PrintsProgress == (iters + 1) % PrintEvery = 0 /\ iters < maxiter1 - maxiter2

\* the sums of the values W, A, X_new and W X_new^T have at the end of a
\* collection iteration
Sampled ==
    IF IsCollection(Iteration)
    THEN [n |-> sample.n + 1,
          W |-> ArrAdd(sample.W, W),
          A |-> ArrAdd(sample.A, A),
          X_new |-> ArrAdd(sample.X_new, X_new),
          mat_hat |-> ArrAdd(sample.mat_hat, matmul(W, T(X_new)))]
    ELSE sample

\* lines 375-381 and the loop test of line 304: the Gamma draw of tau, the
\* validation RMSE and the progress line
SampleTau ==
    /\ pc = "tau"
    /\ \E drawn \in Stream("gamma", 0, GammaDraws(GammaShape, QDiv(QInt(1), GammaRate))) :
          /\ tau' = drawn
          /\ rng' = Consumed(<<drawn>>)
    /\ draws' = Append(draws, "gamma")
    /\ rmse' = MeanSquare(ArrDiv(mat_hat, 1))
    /\ stdout' = IF PrintsProgress
                 THEN Append(stdout, [kind |-> "Iter", n |-> iters + 1, rmse |-> rmse'])
                 ELSE stdout
    /\ sample' = Sampled
    /\ IF iters + 1 < maxiter1
       THEN iters' = iters + 1 /\ pc' = "hyper"
       ELSE iters' = iters /\ pc' = "final"
    /\ UNCHANGED <<args, setup, W, X, Sigma, A, sums, i, t, mat_hat, X_new, ret,
                   xdraw, alg, var3, var4, factored>>

\* lines 383-386 with the run length as divisor
Averaged_OverRun ==
    [mat_hat |-> ArrDiv(mat_hat_plus, maxiter1),
     W       |-> ArrDiv(W_plus, maxiter1),
     X_new   |-> ArrDiv(X_new_plus, maxiter1),
     A       |-> ArrDiv(A_plus, maxiter1)]

\* lines 383-386: the running sums divided by maxiter2
Averaged ==
    [mat_hat |-> ArrDiv(mat_hat_plus, maxiter2),
     W       |-> ArrDiv(W_plus, maxiter2),
     X_new   |-> ArrDiv(X_new_plus, maxiter2),
     A       |-> ArrDiv(A_plus, maxiter2)]

\* line 387 with a strict comparison
PrintsFinal_Strict == maxiter1 > FinalMin

\* line 387
PrintsFinal == maxiter1 >= FinalMin

\* lines 388-392: the final summary
FinalSummary(hat) == [kind |-> "Imputation", mape |-> MeanAbsPercent(hat),
                      rmse |-> MeanSquare(hat)]

\* lines 383-394: the averages, the final summary and the return
Finish ==
    /\ pc = "final"
    /\ ret' = Averaged
    /\ stdout' = IF PrintsFinal
                 THEN Append(stdout, FinalSummary(ret'.mat_hat))
                 ELSE stdout
    /\ pc' = "done"
    /\ UNCHANGED <<args, setup, W, X, tau, Sigma, A, sums, iters, i, t, mat_hat, X_new,
                   rmse, xdraw, draws, sample, alg,
                   var3, var4, factored, rng>>

Next ==
    \/ Setup
    \/ SampleHyper
    \/ SampleWRow
    \/ AccumulateW
    \/ SamplePrior
    \/ SampleXRow
    \/ Extend
    \/ SampleTau
    \/ Finish

\* the stream of np.random after np.random.seed: what it returns is recorded
Seeded == [mode |-> "record", tape |-> <<>>, at |-> 0, first |-> NoOutcome]

\* np.random.seed with the seed of the call that has returned, followed by a
\* second call of BTMF with arguments equal to those of the first: the
\* stream returns again what it returned, and what the first call returned
\* and printed is kept for comparison
Rerun ==
    /\ pc = "done"
    /\ rng.mode = "record"
    /\ rng' = [mode |-> "replay", tape |-> rng.tape, at |-> 0,
               first |-> [ret |-> ret, stdout |-> stdout]]
    /\ pc' = "entry"
    /\ W' = NoArray /\ X' = NoArray
    /\ d' = 0 /\ dim1' = 0 /\ dim2' = 0
    /\ pos' = {} /\ position' = {} /\ binary_mat' = NoArray
    /\ tau' = 0 /\ Sigma' = NoArray /\ A' = NoArray
    /\ W_plus' = NoArray /\ X_plus' = NoArray /\ X_new_plus' = NoArray
    /\ A_plus' = NoArray /\ mat_hat_plus' = NoArray
    /\ iters' = 0 /\ i' = 0 /\ t' = 0
    /\ mat_hat' = NoArray /\ X_new' = NoArray /\ rmse' = <<0, 0>>
    /\ stdout' = <<>>
    /\ ret' = NoOutcome.ret
    /\ xdraw' = [t |-> -1, backward |-> FALSE, index |-> <<>>, reads |-> {},
                 regularized |-> FALSE, lagged |-> <<>>, fresh |-> {},
                 precision |-> [var3 |-> 0, Mt |-> 0, Lambda_x |-> 0, eye |-> 0]]
    /\ draws' = <<>>
    /\ n_plus' = [W |-> 0, A |-> 0, X_new |-> 0, mat_hat |-> 0]
    /\ sample' = [n |-> 0, W |-> NoArray, A |-> NoArray, X_new |-> NoArray,
                  mat_hat |-> NoArray]
    /\ var3' = NoArray /\ var4' = NoArray
    /\ factored' = {}
    /\ UNCHANGED <<args, alg>>

NextTwin ==
    \/ Next
    \/ Rerun

----------------------------------------------------------------------------
(* The array primitives as operations: unfold then fold a tensor, and the   *)
(* Khatri-Rao product of two matrices                                       *)

NoTask == [task |-> "none", step |-> "done", tensor |-> NoArray, mode |-> 0,
           mat |-> NoArray, back |-> NoArray, a |-> NoArray, b |-> NoArray,
           kr |-> NoArray, M |-> NoArray, U |-> NoArray, V |-> NoArray,
           X0 |-> NoArray, noise |-> {}, sample |-> NoArray]

\* mat = ten2mat(tensor, mode)
Unfold ==
    /\ alg.task = "fold" /\ alg.step = "unfold"
    /\ alg' = [alg EXCEPT !.mat = ten2mat(alg.tensor, alg.mode), !.step = "fold"]
    /\ UNCHANGED <<args, setup, pc, W, X, tau, Sigma, A, sums, iters, i, t, mat_hat,
                   X_new, rmse, stdout, ret, xdraw, draws, sample,
                   var3, var4, factored, rng>>

\* back = mat2ten(mat, np.array(tensor.shape), mode)
Fold ==
    /\ alg.task = "fold" /\ alg.step = "fold"
    /\ alg' = [alg EXCEPT !.back = mat2ten(alg.mat, alg.tensor.shape, alg.mode),
                          !.step = "done"]
    /\ UNCHANGED <<args, setup, pc, W, X, tau, Sigma, A, sums, iters, i, t, mat_hat,
                   X_new, rmse, stdout, ret, xdraw, draws, sample,
                   var3, var4, factored, rng>>

\* kr = kr_prod(a, b)
KhatriRao ==
    /\ alg.task = "kr" /\ alg.step = "kr_prod"
    /\ alg' = [alg EXCEPT !.kr = kr_prod(alg.a, alg.b), !.step = "done"]
    /\ UNCHANGED <<args, setup, pc, W, X, tau, Sigma, A, sums, iters, i, t, mat_hat,
                   X_new, rmse, stdout, ret, xdraw, draws, sample,
                   var3, var4, factored, rng>>

\* the root of a square number
Sqrt(x) == CHOOSE r \in 0..x : r * r = x

\* whether x is the square of a positive integer
Square(x) == x > 0 /\ \E r \in 1..x : r * r = x

\* np.linalg.cholesky(mat) for a matrix of one or two rows whose factor has
\* integer elements: the lower triangular factor computed from the lower
\* triangle of mat, and whether the factorization succeeds (LinAlgError
\* when a pivot is not positive)
cholesky(mat) ==
    LET n == mat.shape[1]
        a == At(mat, <<0, 0>>)
        b == At(mat, <<1, 0>>) \div Sqrt(a)
        c == At(mat, <<1, 1>>) - b * b
    IN  IF ~Square(a) THEN [ok |-> FALSE, L |-> NoArray]
        ELSE IF n = 1 THEN [ok |-> TRUE, L |-> MkArray(<<1, 1>>, LAMBDA idx : Sqrt(a))]
        ELSE IF ~Square(c) THEN [ok |-> FALSE, L |-> NoArray]
        ELSE [ok |-> TRUE,
              L |-> MkArray(<<2, 2>>,
                            LAMBDA idx : CASE idx = <<0, 0>> -> Sqrt(a)
                                           [] idx = <<0, 1>> -> 0
                                           [] idx = <<1, 0>> -> b
                                           [] idx = <<1, 1>> -> Sqrt(c))]

\* np.random.rand: uniform over [0, 1), the values of the support of the
\* normal routines that are not negative
Rand == {v \in support.normal : v >= 0}

\* lines 255-259: M + P X0 Q^T for the matrix X0 that np.random.rand returned
mnrnd(M, U, V, X0) ==
    ArrAdd(M, matmul(matmul(cholesky(U).L, X0), T(cholesky(V).L)))

\* sample = mnrnd(M, U, V)
MatrixNormal ==
    /\ alg.task = "mnrnd" /\ alg.step = "mnrnd"
    /\ \E X0 \in Arrays(alg.M.shape, Rand) :
          IF cholesky(alg.U).ok /\ cholesky(alg.V).ok
          THEN alg' = [alg EXCEPT !.X0 = X0, !.noise = Rand,
                                  !.sample = mnrnd(alg.M, alg.U, alg.V, X0),
                                  !.step = "done"]
          ELSE alg' = [alg EXCEPT !.X0 = X0, !.noise = Rand, !.step = "LinAlgError"]
    /\ UNCHANGED <<args, setup, pc, W, X, tau, Sigma, A, sums, iters, i, t, mat_hat,
                   X_new, rmse, stdout, ret, xdraw, draws, sample,
                   var3, var4, factored, rng>>

NextAlg == Unfold \/ Fold \/ KhatriRao \/ MatrixNormal

----------------------------------------------------------------------------
(* The runs that are checked *)

\* the array of the given shape with all elements equal to v
Full(shape, v) == MkArray(shape, LAMBDA idx : v)

\* the array of the given shape with the elements base, base + 1, ... in C
\* order, as the examples of the notebook
Counting(shape, base) == MkArray(shape, LAMBDA idx : base + CIndex(shape, idx))

\* a 1 x n matrix with the given elements
RowMatrix(elems) == MkArray(<<1, Len(elems)>>, LAMBDA idx : elems[idx[2] + 1])

\* the longest run of the iteration protocol
MaxIter == 3

\* Short runs of every length and every collection window, one entity, two
\* time steps, rank 1, lag 1; the first entry is observed, the second held out.
Init ==
    /\ \E m1 \in 1..MaxIter : \E m2 \in 1..m1 :
         Start(RowMatrix(<<2, 3>>), RowMatrix(<<2, 0>>),
               [W |-> Full(<<1, 1>>, 1), X |-> Full(<<2, 1>>, 1)],
               1, <<1>>, m1, m2, [normal |-> {0, 1}, positive |-> {1}])
    /\ pc = "entry"
    /\ alg = NoTask
    /\ rng = Unseeded

Spec == Init /\ [][Next]_vars

\* the number of progress lines of the longest run
MaxPrints == 2

\* the longest collection window of a long run
MaxWindow == 2

\* the run lengths around the threshold of the final summary, and the run
\* that ends one iteration after its last multiple of PrintEvery
LongRuns == {FinalMin - 1, FinalMin, MaxPrints * PrintEvery + 1}

\* Long runs with the shortest and the longest collection window, with the
\* same data as the short runs.
InitLong ==
    /\ \E m1 \in LongRuns : \E m2 \in {1, MaxWindow} :
         Start(RowMatrix(<<2, 3>>), RowMatrix(<<2, 0>>),
               [W |-> Full(<<1, 1>>, 1), X |-> Full(<<2, 1>>, 1)],
               1, <<1>>, m1, m2, [normal |-> {0, 1}, positive |-> {1}])
    /\ pc = "entry"
    /\ alg = NoTask
    /\ rng = Unseeded

SpecLong == InitLong /\ [][Next]_vars

\* the elements of a set of integers in increasing order
RECURSIVE Ascending(_)
Ascending(S) ==
    IF S = {} THEN <<>>
    ELSE LET m == CHOOSE x \in S : \A y \in S : x <= y
         IN  <<m>> \o Ascending(S \ {m})

\* the lag sets BTMF accepts for a series of n time steps: at least one lag,
\* positive, in increasing order, max(time_lags) < n
LagSets(n) == {Ascending(S) : S \in (SUBSET (1..(n - 1))) \ {{}}}

\* the longest series of a single sweep with varied draws
SweepSteps == 4

\* One collection sweep over two entities, every series length and every lag
\* set, with all entries observed but one.
InitSweep ==
    /\ \E n \in 2..SweepSteps : \E tl \in LagSets(n) :
         Start(Full(<<2, n>>, 2),
               MkArray(<<2, n>>, LAMBDA idx : IF idx = <<0, 0>> THEN 0 ELSE 2),
               [W |-> Full(<<2, 1>>, 1), X |-> Full(<<n, 1>>, 1)],
               1, tl, 1, 1, [normal |-> {0, 1}, positive |-> {1}])
    /\ pc = "entry"
    /\ alg = NoTask
    /\ rng = Unseeded

SpecSweep == InitSweep /\ [][Next]_vars

\* the longest series of a sweep with varied lags
LagSteps == 6

\* One collection sweep over one entity, every series length and every lag
\* set, with a sampling routine that returns one value.
InitLags ==
    /\ \E n \in 2..LagSteps : \E tl \in LagSets(n) :
         Start(Full(<<1, n>>, 2),
               MkArray(<<1, n>>, LAMBDA idx : IF idx = <<0, 0>> THEN 0 ELSE 2),
               [W |-> Full(<<1, 1>>, 1), X |-> Full(<<n, 1>>, 1)],
               1, tl, 1, 1, [normal |-> {1}, positive |-> {1}])
    /\ pc = "entry"
    /\ alg = NoTask
    /\ rng = Unseeded

SpecLags == InitLags /\ [][Next]_vars

\* the longest series of a sweep with varied masks
MaskSteps == 2

\* the 2 x n pairs of a reference matrix and the observed part of it: an
\* entry is unknown (0, 0), held out (v, 0) or observed (v, v), as in
\* sparse_mat = np.multiply(dense_mat, binary_mat)
Masked(n) ==
    {[dense  |-> MkArray(<<2, n>>, LAMBDA idx : IF c[idx] = "unknown" THEN 0 ELSE 2),
      sparse |-> MkArray(<<2, n>>, LAMBDA idx : IF c[idx] = "observed" THEN 2 ELSE 0)] :
        c \in [(0..1) \X (0..(n - 1)) -> {"unknown", "held out", "observed"}]}

\* One burn-in and one collection sweep over two entities, every mask, lag 1,
\* with a sampling routine that returns one value.
InitMasks ==
    /\ \E n \in 2..MaskSteps : \E data \in Masked(n) :
         Start(data.dense, data.sparse,
               [W |-> Full(<<2, 1>>, 1), X |-> Full(<<n, 1>>, 1)],
               1, <<1>>, 2, 1, [normal |-> {1}, positive |-> {1}])
    /\ pc = "entry"
    /\ alg = NoTask
    /\ rng = Unseeded

SpecMasks == InitMasks /\ [][Next]_vars

\* the longest series of a run that ends with the final summary
EvalSteps == 2

\* the pairs of a reference series of n steps and the observed part of it
MaskedSeries(n) ==
    {[dense  |-> MkArray(<<1, n>>, LAMBDA idx : IF c[idx[2]] = "unknown" THEN 0 ELSE 2),
      sparse |-> MkArray(<<1, n>>, LAMBDA idx : IF c[idx[2]] = "observed" THEN 2 ELSE 0)] :
        c \in [0..(n - 1) -> {"unknown", "held out", "observed"}]}

\* Runs of FinalMin iterations over one entity, every mask, lag 1, with a
\* sampling routine that returns one value.
InitEval ==
    /\ \E n \in 2..EvalSteps : \E data \in MaskedSeries(n) :
         Start(data.dense, data.sparse,
               [W |-> Full(<<1, 1>>, 1), X |-> Full(<<n, 1>>, 1)],
               1, <<1>>, FinalMin, 1, [normal |-> {1}, positive |-> {1}])
    /\ pc = "entry"
    /\ alg = NoTask
    /\ rng = Unseeded

SpecEval == InitEval /\ [][Next]_vars

\* the longest run that is made twice with varied draws
TwinIter == 2

\* Two calls with the same arguments after the same seed: short runs with
\* varied draws, and the run of FinalMin iterations, which prints the
\* summary, with a sampling routine that returns one value.
InitTwin ==
    /\ \/ \E m1 \in 1..TwinIter : \E m2 \in {1, m1} :
            Start(RowMatrix(<<2, 3>>), RowMatrix(<<2, 0>>),
                  [W |-> Full(<<1, 1>>, 1), X |-> Full(<<2, 1>>, 1)],
                  1, <<1>>, m1, m2, [normal |-> {0, 1}, positive |-> {1}])
       \/ Start(RowMatrix(<<2, 3>>), RowMatrix(<<2, 0>>),
                [W |-> Full(<<1, 1>>, 1), X |-> Full(<<2, 1>>, 1)],
                1, <<1>>, FinalMin, 1, [normal |-> {1}, positive |-> {1}])
    /\ pc = "entry"
    /\ alg = NoTask
    /\ rng = Seeded

SpecTwin == InitTwin /\ [][NextTwin]_vars

\* the stream of np.random in a state from which it returns the given values
\* in this order
Scripted(values) == [mode |-> "replay", tape |-> values, at |-> 0, first |-> NoOutcome]

\* the longest series of a sweep with factors of rank 2
VarSteps == 5

\* the largest first element of the arrays such a sweep draws
VarBase == 1

\* what np.random returns in one iteration over one entity and n time steps
\* with rank 2 and the given number of lags: arrays of consecutive numbers, so
\* that no two elements of the coefficient matrix are equal and no two rows
\* of X are
VarDraws(n, lags, base) ==
    <<NoArray, NoArray, Counting(<<2>>, 0),
      CHOOSE S \in Diagonal(2, {1}) : TRUE, Counting(<<2 * lags, 2>>, base)>>
    \o [tt \in 1..n |-> Counting(<<2>>, base + 2 * tt)]
    \o <<1>>

\* One collection sweep with factors of rank 2 over one entity, every series
\* length and every lag set, with the draws of VarDraws.
InitVar ==
    /\ \E n \in 2..VarSteps : \E tl \in LagSets(n) : \E base \in 0..VarBase :
         /\ Start(Full(<<1, n>>, 2),
                  MkArray(<<1, n>>, LAMBDA idx : IF idx = <<0, 0>> THEN 0 ELSE 2),
                  [W |-> Full(<<1, 2>>, 1), X |-> Counting(<<n, 2>>, base + 2 * n + 2)],
                  2, tl, 1, 1,
                  [normal |-> 0..(base + 4 * n + 4), positive |-> {1}])
         /\ rng = Scripted(VarDraws(n, Len(tl), base))
    /\ pc = "entry"
    /\ alg = NoTask

SpecVar == InitVar /\ [][Next]_vars

\* the longest run with varied draws of tau
TauIter == 2

\* Short runs with a Gamma and an inverse Wishart routine that return one of
\* two values; one entity, two time steps, the first entry observed.
InitTau ==
    /\ \E m1 \in 1..TauIter :
         Start(RowMatrix(<<2, 3>>), RowMatrix(<<2, 0>>),
               [W |-> Full(<<1, 1>>, 1), X |-> Full(<<2, 1>>, 1)],
               1, <<1>>, m1, 1, [normal |-> {0, 1}, positive |-> {1, 2}])
    /\ pc = "entry"
    /\ alg = NoTask
    /\ rng = Unseeded

SpecTau == InitTau /\ [][Next]_vars

\* how far an argument lies outside the range BTMF is documented for
MaxExcess == 1

\* the lag sets whose longest lag is not shorter than a series of n steps
LongLagSets(n) ==
    {Ascending(S) : S \in {L \in SUBSET (1..(n + MaxExcess)) :
                              \E lag \in L : lag >= n}}

\* Calls with arguments outside the documented range: a collection window
\* longer than the run or not positive, or a longest lag that is not shorter
\* than the series; one entity, two time steps.
InitInvalid ==
    /\ \/ \E m1 \in 1..2 : \E m2 \in ((m1 + 1)..(m1 + MaxExcess)) \cup ((0 - MaxExcess)..0) :
            Start(RowMatrix(<<2, 3>>), RowMatrix(<<2, 0>>),
                  [W |-> Full(<<1, 1>>, 1), X |-> Full(<<2, 1>>, 1)],
                  1, <<1>>, m1, m2, [normal |-> {0, 1}, positive |-> {1}])
       \/ \E tl \in LongLagSets(2) :
            Start(RowMatrix(<<2, 3>>), RowMatrix(<<2, 0>>),
                  [W |-> Full(<<1, 1>>, 1), X |-> Full(<<2, 1>>, 1)],
                  1, tl, 1, 1, [normal |-> {0, 1}, positive |-> {1}])
    /\ pc = "entry"
    /\ alg = NoTask
    /\ rng = Unseeded

SpecInvalid == InitInvalid /\ [][Next]_vars

\* the longest run with a collection window of any length
WindowIter == 2

\* Short runs with every collection window from negative lengths to lengths
\* beyond the run; one entity, two time steps.
InitWindow ==
    /\ \E m1 \in 1..WindowIter : \E m2 \in (0 - MaxExcess)..(m1 + MaxExcess) :
         Start(RowMatrix(<<2, 3>>), RowMatrix(<<2, 0>>),
               [W |-> Full(<<1, 1>>, 1), X |-> Full(<<2, 1>>, 1)],
               1, <<1>>, m1, m2, [normal |-> {0, 1}, positive |-> {1}])
    /\ pc = "entry"
    /\ alg = NoTask
    /\ rng = Unseeded

SpecWindow == InitWindow /\ [][Next]_vars

\* the longest axis of a tensor or matrix given to the array primitives
MaxAxis == 3

\* the largest first element of such an array
MaxBase == 1

\* no call of BTMF; the values a normal routine returns stand for a negative
\* number, zero and a positive number
Uncalled ==
    /\ Start(NoArray, NoArray, [W |-> NoArray, X |-> NoArray], 0, <<>>, 0, 0,
             [normal |-> {-1, 0, 1}, positive |-> {1}])
    /\ pc = "idle"
    /\ rng = Unseeded

\* the lower triangular matrices of n rows with a positive diagonal
Factors(n) ==
    {MkArray(<<n, n>>, LAMBDA idx : IF idx[1] = idx[2] THEN dg[idx[1]]
                                    ELSE IF idx[1] > idx[2] THEN off ELSE 0) :
        dg \in [0..(n - 1) -> {1, 2}], off \in {-1, 0, 1}}

\* covariance matrices of n rows, P P^T for the factors P, and symmetric
\* matrices that are not positive definite
Covariances(n) ==
    {matmul(P, T(P)) : P \in Factors(n)}
    \cup {Full(<<n, n>>, v) : v \in {-1, 0}}
    \cup {MkArray(<<n, n>>, LAMBDA idx : IF idx[1] = idx[2] THEN 1 ELSE 2)}

\* Every tensor shape and mode, every pair of matrices with one number of
\* columns, filled with consecutive numbers, and every mean of one or two
\* rows and columns with every pair of covariances.
InitAlg ==
    /\ Uncalled
    /\ \/ \E s1, s2, s3 \in 1..MaxAxis : \E m \in 0..2 : \E base \in 0..MaxBase :
            alg = [NoTask EXCEPT !.task = "fold", !.step = "unfold",
                                 !.tensor = Counting(<<s1, s2, s3>>, base), !.mode = m]
       \/ \E m, n, r \in 1..MaxAxis : \E base \in 0..MaxBase :
            alg = [NoTask EXCEPT !.task = "kr", !.step = "kr_prod",
                                 !.a = Counting(<<m, r>>, base),
                                 !.b = Counting(<<n, r>>, base + m * r)]
       \/ \E m, n \in 1..2 : \E base \in 0..MaxBase :
          \E U \in Covariances(m) : \E V \in Covariances(n) :
            alg = [NoTask EXCEPT !.task = "mnrnd", !.step = "mnrnd",
                                 !.M = Counting(<<m, n>>, base), !.U = U, !.V = V]

SpecAlg == InitAlg /\ [][NextAlg]_vars

----------------------------------------------------------------------------
(* Properties of the iteration protocol *)

\* the number of iterations of the loop that have ended
Completed ==
    IF pc \in {"final", "done"} THEN maxiter1
    ELSE IF pc = "entry" THEN 0
    ELSE iters

\* the number of collection iterations among the first n iterations
CollectionsIn(n) == Cardinality({m \in 1..n : IsCollection(m)})

\* the number of collection iterations that have reached a statement which
\* the current iteration has passed exactly when passed holds
Reached(passed) == CollectionsIn(IF passed THEN Completed + 1 ELSE Completed)

\* C1: iteration n is a collection iteration iff n > maxiter1 - maxiter2.
\* Each running sum (W, A, extended X, extended reconstruction) is zero until
\* it is first added to, has been added to once for every collection
\* iteration that has reached its += statement and never in a burn-in
\* iteration, so that at loop exit it holds maxiter2 samples; and once a sum
\* has been added to, the iteration the loop is in is a collection iteration.
C1_Accumulation ==
    pc # "entry" =>
        /\ n_plus.W = Reached(pc \in {"prior", "Xrow", "extend", "tau"})
        /\ n_plus.A = Reached(pc \in {"Xrow", "extend", "tau"})
        /\ n_plus.X_new = Reached(pc = "tau")
        /\ n_plus.mat_hat = Reached(pc = "tau")
        /\ (n_plus.W = 0 => W_plus = Zeros(<<dim1, rank>>))
        /\ (n_plus.A = 0 => A_plus = Zeros(<<rank, rank, d>>))
        /\ (n_plus.X_new = 0 => X_new_plus = Zeros(<<dim2 + 1, rank>>))
        /\ (n_plus.mat_hat = 0 => mat_hat_plus = Zeros(<<dim1, dim2 + 1>>))
        /\ (pc \in {"final", "done"} =>
               /\ n_plus.W = maxiter2 /\ n_plus.A = maxiter2
               /\ n_plus.X_new = maxiter2 /\ n_plus.mat_hat = maxiter2)
        /\ \A n \in 1..maxiter1 : \A m \in n..maxiter1 : IsCollection(n) => IsCollection(m)
        /\ (n_plus.W > 0 /\ pc \notin {"final", "done"} => IsCollection(Iteration))

\* a run with a burn-in iteration and two collection iterations has returned
C1_Witness ==
    /\ pc = "done" /\ 2 <= maxiter2 /\ maxiter2 < maxiter1
    /\ n_plus = [W |-> maxiter2, A |-> maxiter2, X_new |-> maxiter2, mat_hat |-> maxiter2]

\* C2: each returned value is the arithmetic mean, over exactly the maxiter2
\* collection iterations, of the value at the end of the iteration: of W, of
\* A, of the extended X, and of the product W X_new^T of that iteration.
C2_Averages ==
    pc = "done" =>
        /\ sample.n = maxiter2
        /\ ret.W = ArrDiv(sample.W, sample.n)
        /\ ret.A = ArrDiv(sample.A, sample.n)
        /\ ret.X_new = ArrDiv(sample.X_new, sample.n)
        /\ ret.mat_hat = ArrDiv(sample.mat_hat, sample.n)

\* a run with a burn-in iteration has returned means that no single
\* iteration produced
C2_Witness ==
    /\ pc = "done" /\ maxiter2 = 2 /\ maxiter1 = 3
    /\ At(ret.W, <<0, 0>>) = <<1, 2>>
    /\ At(ret.A, <<0, 0, 0>>) = <<1, 2>>
    /\ At(ret.X_new, <<dim2, 0>>) = <<1, 2>>
    /\ At(ret.mat_hat, <<0, dim2>>) = <<1, 2>>

----------------------------------------------------------------------------
(* Properties of the diagnostics *)

\* the progress lines printed so far
Progress == SelectSeq(stdout, LAMBDA line : line.kind = "Iter")

\* the final summaries printed so far
Finals == SelectSeq(stdout, LAMBDA line : line.kind = "Imputation")

\* the multiples of 200 in 1..n
Multiples(n) == {k * 200 : k \in 1..(n \div 200)}

\* C3: a progress line is printed at iteration n iff n is a multiple of 200
\* and n <= maxiter1 - maxiter2; none is printed in a collection iteration,
\* and the lines appear in increasing order of n.
C3_Progress ==
    /\ {Progress[k].n : k \in 1..Len(Progress)}
           = {n \in Multiples(Completed) : n <= maxiter1 - maxiter2}
    /\ \A k \in 1..Len(Progress) : ~IsCollection(Progress[k].n)
    /\ \A k \in 1..(Len(Progress) - 1) : Progress[k].n < Progress[k + 1].n

\* a run has printed two progress lines and returned
C3_Witness == pc = "done" /\ Len(Progress) = 2

\* C4: the final summary is printed once, after the last iteration and after
\* every progress line, iff maxiter1 >= 100; its MAPE and RMSE are those of
\* the mean over the collection window of the extended reconstruction at the
\* held-out positions; the four outputs are returned in either case.
C4_FinalSummary ==
    /\ pc # "done" => Len(Finals) = 0
    /\ pc = "done" =>
        /\ Len(Finals) = (IF maxiter1 >= 100 THEN 1 ELSE 0)
        /\ maxiter1 >= 100 =>
              stdout[Len(stdout)] =
                  [kind |-> "Imputation",
                   mape |-> MeanAbsPercent(ArrDiv(sample.mat_hat, maxiter2)),
                   rmse |-> MeanSquare(ArrDiv(sample.mat_hat, maxiter2))]
        /\ ret.mat_hat.shape = <<dim1, dim2 + 1>>
        /\ ret.W.shape = <<dim1, rank>>
        /\ ret.X_new.shape = <<dim2 + 1, rank>>
        /\ ret.A.shape = <<rank, rank, d>>

\* a run of 100 iterations has printed a summary that differs from the one
\* the reconstruction of the last iteration would give
C4_Witness ==
    /\ pc = "done" /\ maxiter1 = 100 /\ Len(Finals) = 1
    /\ Finals[1].rmse # MeanSquare(ArrDiv(mat_hat, 1))
    /\ Finals[1] = stdout[Len(stdout)]

----------------------------------------------------------------------------
(* Properties of the forecast and of the masks *)

\* the sum over the lags k of A[:, :, k] X[dim2 - lag_k], element c
Forecast(c) ==
    SumTo(LAMBDA k : SumTo(LAMBDA c2 : At(A, <<c, c2, k>>)
                                       * At(X, <<dim2 - time_lags[k + 1], c2>>), rank), d)

\* C5: in a collection iteration the extended X has dim2 + 1 rows; rows
\* 0..dim2-1 are those of X and row dim2 is the sum over the lags k of
\* A[:, :, k] X[dim2 - lag_k] for the A and X of the iteration; the rows read
\* for it are among 0..dim2-1; and the reconstruction has dim2 + 1 columns,
\* the last being W times the forecast row.
C5_Forecast ==
    pc \in {"tau", "final", "done"} /\ IsCollection(Iteration) =>
        /\ X_new.shape = <<dim2 + 1, rank>>
        /\ \A r \in 0..(dim2 - 1) : \A c \in 0..(rank - 1) :
               At(X_new, <<r, c>>) = At(X, <<r, c>>)
        /\ \A c \in 0..(rank - 1) : At(X_new, <<dim2, c>>) = Forecast(c)
        /\ \A k \in 1..d : ForecastRows[k] \in 0..(dim2 - 1)
        /\ mat_hat_plus.shape = <<dim1, dim2 + 1>>
        /\ n_plus.mat_hat = 1 =>
               \A r \in 0..(dim1 - 1) :
                   At(mat_hat_plus, <<r, dim2>>)
                       = SumTo(LAMBDA c : At(W, <<r, c>>) * Forecast(c), rank)
        /\ pc = "done" =>
               /\ ret.mat_hat.shape = <<dim1, dim2 + 1>>
               /\ maxiter2 = 1 =>
                      \A r \in 0..(dim1 - 1) :
                          At(ret.mat_hat, <<r, dim2>>)
                              = QInt(SumTo(LAMBDA c : At(W, <<r, c>>) * Forecast(c), rank))

\* lags 1 and 3: the forecast adds rows dim2 - 1 and dim2 - 3 and skips the
\* row between them
C5_Witness ==
    /\ pc = "done" /\ time_lags = <<1, 3>> /\ dim2 = 4
    /\ At(X, <<3, 0>>) = 1 /\ At(X, <<1, 0>>) = 1 /\ At(X, <<2, 0>>) = 0
    /\ At(X_new, <<4, 0>>) = 2
    /\ At(ret.mat_hat, <<1, 4>>) = <<2, 1>>

\* C6: the observation mask is 1 exactly at the non-zero entries of the
\* sparse matrix and 0 elsewhere; the evaluation set is exactly the entries
\* with dense != 0 and sparse = 0; the two sets are disjoint; and this holds
\* from the first iteration to the return.
C6_Masks ==
    pc # "entry" =>
        /\ binary_mat.shape = sparse_mat.shape
        /\ \A idx \in Indices(sparse_mat) :
               At(binary_mat, idx) = (IF At(sparse_mat, idx) # 0 THEN 1 ELSE 0)
        /\ \A idx \in Indices(sparse_mat) :
               idx \in pos <=> (At(dense_mat, idx) # 0 /\ At(sparse_mat, idx) = 0)
        /\ pos \subseteq Indices(sparse_mat)
        /\ position = {idx \in Indices(sparse_mat) : At(binary_mat, idx) = 1}
        /\ pos \cap position = {}

\* a run with observed, held-out and unknown entries is in its second
\* iteration
C6_Witness ==
    /\ pc = "tau" /\ iters = 1
    /\ pos # {} /\ position # {}
    /\ pos \cup position # Indices(sparse_mat)

----------------------------------------------------------------------------
(* Properties of the array primitives *)

\* C7: for every 3-way tensor and every mode 0, 1, 2, folding the unfolded
\* tensor with the tensor's shape and the same mode gives the tensor back.
C7_FoldUnfold ==
    alg.task = "fold" =>
        /\ alg.step # "unfold" =>
               alg.mat.shape = <<alg.tensor.shape[alg.mode + 1],
                                 Size(alg.tensor) \div alg.tensor.shape[alg.mode + 1]>>
        /\ alg.step = "done" =>
               /\ alg.back.shape = alg.tensor.shape
               /\ \A idx \in Indices(alg.tensor) : At(alg.back, idx) = At(alg.tensor, idx)

\* a 2 x 3 x 2 tensor has been unfolded along its middle axis and folded back
C7_Witness ==
    /\ alg.task = "fold" /\ alg.step = "done" /\ alg.mode = 1
    /\ alg.tensor.shape = <<2, 3, 2>>
    /\ alg.mat.shape = <<3, 4>>
    /\ alg.mat.data # alg.tensor.data

\* the Kronecker product of two matrices: the block matrix of the a[i, j] b
Kron(a, b) ==
    MkArray(<<a.shape[1] * b.shape[1], a.shape[2] * b.shape[2]>>,
            LAMBDA idx : At(a, <<idx[1] \div b.shape[1], idx[2] \div b.shape[2]>>)
                         * At(b, <<idx[1] % b.shape[1], idx[2] % b.shape[2]>>))

\* column k of a matrix, as a matrix of one column
Column(mat, k) == MkArray(<<mat.shape[1], 1>>, LAMBDA idx : At(mat, <<idx[1], k>>))

\* C8: for a of shape m x r and b of shape n x r, kr_prod(a, b) has shape
\* (m n) x r and its entry at row i n + j, column k is a[i, k] b[j, k]: column
\* k is the Kronecker product of the columns k of a and b, and for r = 1 the
\* result is the Kronecker product of the two column vectors.
C8_KhatriRao ==
    alg.task = "kr" /\ alg.step = "done" =>
        LET m == alg.a.shape[1]
            n == alg.b.shape[1]
            r == alg.a.shape[2]
        IN  /\ alg.kr.shape = <<m * n, r>>
            /\ \A ii \in 0..(m - 1) : \A j \in 0..(n - 1) : \A k \in 0..(r - 1) :
                   At(alg.kr, <<ii * n + j, k>>) = At(alg.a, <<ii, k>>) * At(alg.b, <<j, k>>)
            /\ \A k \in 0..(r - 1) :
                   Column(alg.kr, k) = Kron(Column(alg.a, k), Column(alg.b, k))
            /\ r = 1 => alg.kr = Kron(alg.a, alg.b)

\* the example of the notebook and its printed result
C8_Witness ==
    /\ alg.task = "kr" /\ alg.step = "done"
    /\ alg.a = [shape |-> <<2, 2>>, data |-> [p \in 0..3 |-> p + 1]]
    /\ alg.b = [shape |-> <<3, 2>>, data |-> [p \in 0..5 |-> p + 5]]
    /\ alg.kr.shape = <<6, 2>>
    /\ [p \in 1..12 |-> alg.kr.data[p - 1]]
           = <<5, 12, 7, 16, 9, 20, 15, 24, 21, 32, 27, 40>>

----------------------------------------------------------------------------
(* Properties of the temporal sampler *)

\* C9: for every time step t in 0..dim2-1 and every admissible lag set, every
\* row index of X read for the backward term (t - lag_j) and the forward
\* terms (t + lag_k and t + lag_k - lag_j) lies in 0..dim2-1.
C9_RowsInRange ==
    pc # "entry" =>
        /\ pc # "IndexError"
        /\ xdraw.reads \subseteq 0..(dim2 - 1)
        /\ \A tt \in 0..(dim2 - 1) :
            /\ HasBackward(tt) => \A j \in 1..d : tt - time_lags[j] \in 0..(dim2 - 1)
            /\ \A n \in 1..Len(ForwardIndex(tt)) :
                  LET target == tt + time_lags[ForwardIndex(tt)[n] + 1]
                  IN  /\ target \in 0..(dim2 - 1)
                      /\ \A j \in 1..d : target - time_lags[j] \in 0..(dim2 - 1)

\* the draw of X[0] under lags 1 and 3 has read rows: the target row 3 of the
\* longest lag and the rows 2 and 0 its regression reads
C9_Witness ==
    /\ xdraw.t = 0 /\ time_lags = <<1, 3>> /\ dim2 = 5
    /\ xdraw.reads = {0, 2, 3}

\* C10 as stated: when dim2 = max(time_lags) + 1, every X[t] is drawn through
\* the regularized branch without backward term.
C10_AllRegularized ==
    pc # "entry" /\ dim2 = SeqMax(time_lags) + 1 /\ xdraw.t >= 0 =>
        xdraw.regularized /\ ~xdraw.backward

\* C10: when dim2 = max(time_lags) + 1, X[t] is drawn through the regularized
\* branch without backward term for t in 0..dim2-2, and X[dim2 - 1] is drawn
\* with the backward term and with Sigma^-1 kept in the precision; both tests
\* select the branch by t < max(time_lags).
C10_AllButLast ==
    pc # "entry" /\ dim2 = SeqMax(time_lags) + 1 /\ xdraw.t >= 0 =>
        /\ xdraw.t < dim2 - 1 => xdraw.regularized /\ ~xdraw.backward
        /\ xdraw.t = dim2 - 1 => ~xdraw.regularized /\ xdraw.backward
        /\ xdraw.backward => {xdraw.t - time_lags[j] : j \in 1..d} \subseteq xdraw.reads

\* the last row of a series of max(time_lags) + 1 steps has been drawn with
\* the backward term
C10_Witness ==
    /\ pc = "extend" /\ dim2 = SeqMax(time_lags) + 1 /\ d = 2
    /\ xdraw.t = dim2 - 1 /\ xdraw.backward /\ ~xdraw.regularized

----------------------------------------------------------------------------
(* Properties of the handling of arguments and of numerical hazards *)

\* the arguments of the call are outside the documented range
Inconsistent ==
    \/ SeqMax(time_lags) >= sparse_mat.shape[2]
    \/ maxiter2 > maxiter1
    \/ maxiter2 <= 0
    \/ init.W.shape[2] # rank
    \/ init.X.shape[2] # rank
    \/ dense_mat.shape # sparse_mat.shape

\* C11: a call with inconsistent arguments (max(time_lags) >= dim2,
\* maxiter2 > maxiter1 or maxiter2 <= 0, a column count of W or X other than
\* rank, dense and sparse of different shape) ends in a fatal error at entry:
\* it takes no sampler step, makes no draw and leaves W and X as they were
\* passed.
C11_Validated ==
    Inconsistent =>
        /\ pc \in {"entry", "ValueError"}
        /\ draws = <<>>
        /\ pc # "entry" => W = init.W /\ X = init.X

\* the term of the MAPE sum of line 388 for a held-out entry
MapeTerm(hat, idx) ==
    QDiv(QAbs(QSub(QInt(At(dense_mat, idx)), At(hat, idx))), QInt(At(dense_mat, idx)))

\* C12: every term of the final MAPE divides by a held-out reference value
\* that is not zero, because no entry with dense = 0 is in the evaluation
\* set; every term is finite, and the MAPE that is printed is not finite only
\* when the evaluation set is empty.
C12_MapeGuarded ==
    pc # "entry" =>
        /\ \A idx \in pos : At(dense_mat, idx) # 0
        /\ pc = "done" =>
               /\ \A idx \in pos : QFinite(MapeTerm(ret.mat_hat, idx))
               /\ Len(stdout) = 1 /\ stdout[1].kind = "Imputation"
               /\ stdout[1].mape = MeanAbsPercent(ret.mat_hat)
               /\ pos # {} => QFinite(stdout[1].mape)

\* a run over a series with an unknown (zero) entry and a held-out entry has
\* printed a finite MAPE
C12_Witness ==
    /\ pc = "done"
    /\ \E idx \in Indices(dense_mat) : At(dense_mat, idx) = 0
    /\ pos # {}
    /\ stdout[1].kind = "Imputation" /\ stdout[1].mape = <<1, 2>>

\* C13: every conditional precision or covariance matrix is replaced by
\* (M + M.T) / 2 before it is inverted or Cholesky-factorized: the precision
\* of each row of W, the precision of each row of X, and the row and column
\* covariances given to the matrix normal sampler.
C13_Symmetrized ==
    \A f \in factored :
        f.site \in {"W", "X", "mnrnd U", "mnrnd V"} => f.symmetrized

----------------------------------------------------------------------------
(* Properties of the random draws *)

FactorOf(L, mat) ==
    /\ L.shape = mat.shape
    /\ \A idx \in Indices(L) : (idx[1] < idx[2] => At(L, idx) = 0)
                               /\ (idx[1] = idx[2] => At(L, idx) > 0)
    /\ matmul(L, T(L)) = mat

\* C16: mnrnd(M, U, V) returns M + L_U Z L_V^T for the Cholesky factors L_U
\* and L_V of U and V and a matrix Z of M's shape whose entries are
\* standard-normal draws, which can be negative as well as positive, so that
\* a sample can lie on either side of M; the call fails when U or V is not
\* positive definite.
C16_StandardNormal ==
    alg.task = "mnrnd" =>
        /\ alg.step = "done" =>
               /\ \E P \in Factors(alg.U.shape[1]) : \E Q \in Factors(alg.V.shape[1]) :
                      /\ FactorOf(P, alg.U) /\ FactorOf(Q, alg.V)
                      /\ alg.sample = ArrAdd(alg.M, matmul(matmul(P, alg.X0), T(Q)))
               /\ alg.X0.shape = alg.M.shape
               /\ \E z \in alg.noise : z < 0
               /\ \E z \in alg.noise : z > 0
        /\ alg.step = "LinAlgError" =>
               \/ ~ \E P \in Factors(alg.U.shape[1]) : FactorOf(P, alg.U)
               \/ ~ \E Q \in Factors(alg.V.shape[1]) : FactorOf(Q, alg.V)

----------------------------------------------------------------------------
(* Properties of the conditionals of the rows of X and W *)

\* the lag numbers k with max(time_lags) <= tt + lag_k < dim2
Admitted(tt) ==
    {k \in 0..(d - 1) : /\ SeqMax(time_lags) <= tt + time_lags[k + 1]
                        /\ tt + time_lags[k + 1] < dim2}

\* the elements of a tuple
Elements(seq) == {seq[n] : n \in 1..Len(seq)}

\* C17: for every time step t and every admissible lag set, the lag
\* numbers k whose forward term is added to the conditional of X[t] are
\* exactly those with max(time_lags) <= t + lag_k < dim2, each once: none for
\* t >= dim2 - min(lags), all for max(lags) <= t < dim2 - max(lags), and the
\* filtered ones otherwise.
C17_ForwardRule ==
    pc # "entry" =>
        /\ xdraw.t >= 0 =>
               /\ Elements(xdraw.index) = Admitted(xdraw.t)
               /\ Len(xdraw.index) = Cardinality(Admitted(xdraw.t))
        /\ \A tt \in 0..(dim2 - 1) :
               /\ Elements(ForwardIndex(tt)) = Admitted(tt)
               /\ Len(ForwardIndex(tt)) = Cardinality(Admitted(tt))
               /\ tt >= dim2 - SeqMin(time_lags) => ForwardIndex(tt) = <<>>
               /\ SeqMax(time_lags) <= tt /\ tt < dim2 - SeqMax(time_lags) =>
                      ForwardIndex(tt) = Range(d)

\* X[3] of a series of five steps with lags 1 and 2 has been drawn with the
\* forward term of lag 1 alone
C17_Witness ==
    /\ xdraw.t = 3 /\ dim2 = 5 /\ time_lags = <<1, 2>>
    /\ xdraw.index = <<0>>
    /\ ForwardIndex(2) = <<0, 1>> /\ ForwardIndex(4) = <<>>

\* the data term of the precision of X[tt]: the sum over the entities i with
\* an observed entry at tt of W[i] W[i]^T, element (a, b)
DataTermX(tt, a, b) ==
    SumTo(LAMBDA r : At(binary_mat, <<r, tt>>) * At(W, <<r, a>>) * At(W, <<r, b>>), dim1)

\* C18: for t < max(time_lags) the backward term is zero and the precision
\* of X[t] is tau * (data term) + (forward terms) + identity, without
\* Sigma^-1; for t >= max(time_lags) the backward term is built from the
\* rows X[t - lag_k] in the order of the lags and the precision is
\* tau * (data term) + Sigma^-1 + (forward terms), without identity; the two
\* tests select the same branch.
C18_Branches ==
    pc # "entry" /\ xdraw.t >= 0 =>
        LET early == xdraw.t < SeqMax(time_lags)
            \* var3 holds Lambda_x once (line 338)
            Lambda_x == 1 + xdraw.precision.Lambda_x
        IN  /\ xdraw.precision.var3 = 1 /\ xdraw.precision.Mt = 1
            /\ early => /\ ~xdraw.backward /\ xdraw.lagged = <<>>
                        /\ Lambda_x = 0 /\ xdraw.precision.eye = 1
            /\ ~early => /\ xdraw.backward
                         /\ xdraw.lagged = [k \in 1..d |-> xdraw.t - time_lags[k]]
                         /\ Lambda_x = 1 /\ xdraw.precision.eye = 0
            /\ xdraw.regularized <=> ~xdraw.backward
            /\ pc \in {"Xrow", "extend"} =>
                   /\ var3.shape = <<rank, rank, dim2>>
                   /\ \A tt \in 0..(dim2 - 1) : \A a, b \in 0..(rank - 1) :
                          At(var3, <<a, b, tt>>) = tau * DataTermX(tt, a, b)

\* X[2] of a series with lags 1 and 2 has been drawn with the backward term
\* built from rows 1 and 0
C18_Witness ==
    /\ pc = "Xrow" /\ xdraw.t = 2 /\ time_lags = <<1, 2>>
    /\ xdraw.backward /\ xdraw.lagged = <<1, 0>>
    /\ xdraw.precision = [var3 |-> 1, Mt |-> 1, Lambda_x |-> 0, eye |-> 0]

\* row r of X holds the value it had when the sweep began (in a run of one
\* iteration: the value of init["X"])
AsAtStart(r) == \A c \in 0..(rank - 1) : At(X, <<r, c>>) = At(init.X, <<r, c>>)

C20_RowsIndependent ==
    pc \in {"Wrow", "Wplus"} =>
        /\ var3.shape = <<rank, rank, dim1>>
        /\ var4.shape = <<rank, dim1>>
        /\ \A r \in 0..(dim1 - 1) : \A a \in 0..(rank - 1) :
               /\ At(var4, <<a, r>>)
                      = tau * SumTo(LAMBDA s : At(X, <<s, a>>) * At(sparse_mat, <<r, s>>), dim2)
               /\ \A b \in 0..(rank - 1) :
                      At(var3, <<a, b, r>>)
                          = tau * SumTo(LAMBDA s : At(binary_mat, <<r, s>>)
                                                   * At(X, <<s, a>>) * At(X, <<s, b>>), dim2)
        /\ maxiter1 = 1 => X = init.X /\ tau = 1
        /\ draws = <<"wishart", "mvnrnd">> \o [k \in 1..i |-> "mvnrnd"]
        /\ Len(SelectSeq(draws, LAMBDA r : r = "wishart")) = 1

\* the first row of W has been redrawn to another value and the second is
\* about to be drawn from terms that differ from those of the first
C20_Witness ==
    /\ pc = "Wrow" /\ i = 1
    /\ At(W, <<0, 0>>) # At(init.W, <<0, 0>>)
    /\ At(var4, <<0, 0>>) # At(var4, <<0, 1>>)
    /\ At(var3, <<0, 0, 0>>) # At(var3, <<0, 0, 1>>)

----------------------------------------------------------------------------
(* Properties of the order of the steps of a sweep *)

\* the sampling routines one iteration calls, in order: the Wishart and the
\* Gaussian draw of the hyperparameters, one Gaussian draw per row of W, the
\* inverse Wishart and the matrix normal draw of the temporal prior, one
\* Gaussian draw per row of X, and the Gamma draw of tau
DrawOrder ==
    <<"wishart", "mvnrnd">> \o [k \in 1..dim1 |-> "mvnrnd"]
    \o <<"invwishart", "mnrnd">> \o [k \in 1..dim2 |-> "mvnrnd"]
    \o <<"gamma">>

\* C21: in every iteration, of burn-in and of collection and whatever the
\* data, the steps come in one order: the hyperparameter update (Wishart,
\* then mean), the rows of W in the order 0..dim1-1, the temporal-prior update
\* (inverse Wishart, then matrix normal), the rows of X in the order
\* 0..dim2-1, the reconstruction W X^T, and the Gamma draw of tau; so at every
\* statement the draws made so far in the iteration are the matching prefix of
\* that order, and a finished iteration has made exactly these draws.
C21_FixedOrder ==
    /\ pc = "Wrow" => i < dim1 /\ draws = SubSeq(DrawOrder, 1, 2 + i)
    /\ pc \in {"Wplus", "prior"} => draws = SubSeq(DrawOrder, 1, 2 + dim1)
    /\ pc = "Xrow" => t < dim2 /\ draws = SubSeq(DrawOrder, 1, 4 + dim1 + t)
    /\ pc = "extend" => draws = SubSeq(DrawOrder, 1, 4 + dim1 + dim2)
    /\ pc = "tau" => /\ draws = SubSeq(DrawOrder, 1, 4 + dim1 + dim2)
                     /\ mat_hat = matmul(W, T(X))
    /\ pc \in {"hyper", "final", "done"} /\ Completed > 0 => draws = DrawOrder

\* a run with a burn-in and a collection iteration has ended, both with the
\* draws in this order, on data with an entity that has no observed entry
C21_Witness ==
    /\ pc = "done" /\ maxiter1 = 2 /\ maxiter2 = 1
    /\ draws = DrawOrder
    /\ \E e \in 0..(dim1 - 1) : \A idx \in position : idx[1] # e

\* C22 as stated: in a collection iteration the sample is added to the
\* running sums after tau has been redrawn, as the last step of the sweep; so
\* up to and including the Gamma draw no running sum holds the sample of the
\* iteration the loop is in.
C22_AfterTau ==
    pc \in {"Wrow", "Wplus", "prior", "Xrow", "extend", "tau"} =>
        /\ n_plus.W = CollectionsIn(iters)
        /\ n_plus.A = CollectionsIn(iters)
        /\ n_plus.X_new = CollectionsIn(iters)
        /\ n_plus.mat_hat = CollectionsIn(iters)

\* C22: in a collection iteration every running sum (W, A, extended X,
\* extended reconstruction) already holds the sample of the iteration when
\* tau is about to be redrawn, and the step that redraws tau, the last of the
\* sweep, changes no running sum.
C22_BeforeTau ==
    [][pc = "tau" =>
          /\ UNCHANGED sums
          /\ tau' \in support.positive
          /\ IsCollection(Iteration) =>
                /\ n_plus.W = CollectionsIn(Iteration)
                /\ n_plus.A = CollectionsIn(Iteration)
                /\ n_plus.X_new = CollectionsIn(Iteration)
                /\ n_plus.mat_hat = CollectionsIn(Iteration)]_vars

\* the second collection iteration of a run with a burn-in iteration has
\* added its sample to every running sum and has not yet redrawn tau
C22_Witness ==
    /\ pc = "tau" /\ IsCollection(Iteration) /\ maxiter2 < maxiter1
    /\ n_plus = [W |-> 2, A |-> 2, X_new |-> 2, mat_hat |-> 2]
    /\ Len(draws) = 4 + dim1 + dim2

----------------------------------------------------------------------------
(* Properties of the vector autoregression *)

\* element c of the sum over the lags k, except lag number skip, of
\* A[:, :, k] X[r - lag_k]
LagSum(r, c, skip) ==
    SumTo(LAMBDA k : IF k = skip THEN 0
                     ELSE SumTo(LAMBDA c2 : At(A, <<c, c2, k>>)
                                            * At(X, <<r - time_lags[k + 1], c2>>), rank), d)

\* C23: the lags and the slabs of A are aligned throughout.  The design
\* matrix has dim2 - max(time_lags) rows and rank * d columns, its row for
\* time t >= max(time_lags) is X[t - lag_1], ..., X[t - lag_d] in lag order, and
\* the response is X[max(time_lags) : dim2].  Slab A[:, :, k] is block k (rows
\* k * rank .. k * rank + rank - 1) of the sampled coefficient matrix,
\* transposed.  ten2mat(A, 0) times the lagged rows of t is the sum over k of
\* A[:, :, k] X[t - lag_k]: in the backward term, in the forward term of lag k
\* (where the zeroed slab k removes X[t] from the sum) and in the forecast.
C23_Aligned ==
    LET mx == SeqMax(time_lags)
        sampled == rng.tape[rng.at]
    IN  /\ pc = "prior" =>
              /\ DesignMatrix.shape = <<dim2 - mx, rank * d>>
              /\ Response.shape = <<dim2 - mx, rank>>
              /\ \A r \in 0..(dim2 - mx - 1) : \A c \in 0..(rank - 1) :
                    /\ At(Response, <<r, c>>) = At(X, <<r + mx, c>>)
                    /\ \A k \in 0..(d - 1) :
                          At(DesignMatrix, <<r, k * rank + c>>)
                              = At(X, <<r + mx - time_lags[k + 1], c>>)
        /\ pc = "Xrow" /\ t = 0 /\ rng.mode = "replay" =>
              /\ sampled.shape = <<rank * d, rank>>
              /\ A.shape = <<rank, rank, d>>
              /\ \A k \in 0..(d - 1) : \A c, c2 \in 0..(rank - 1) :
                    At(A, <<c, c2, k>>) = At(sampled, <<k * rank + c2, c>>)
        /\ pc = "Xrow" /\ HasBackward(t) =>
              \A c \in 0..(rank - 1) : At(Predicted(X, t), <<c>>) = LagSum(t, c, -1)
        /\ pc = "Xrow" =>
              \A n \in 1..Len(ForwardIndex(t)) :
                  LET k == ForwardIndex(t)[n]
                      r == t + time_lags[k + 1]
                  IN  \A c \in 0..(rank - 1) :
                          At(Residual(X, t, k), <<c>>) = At(X, <<r, c>>) - LagSum(r, c, k)
        /\ pc = "tau" =>
              \A c \in 0..(rank - 1) : At(X_new, <<dim2, c>>) = LagSum(dim2, c, -1)

\* a row of X with a backward and a forward term is about to be drawn with
\* factors of rank 2 and two lags whose slabs differ in every element
C23_Witness ==
    /\ pc = "Xrow" /\ rank = 2 /\ d = 2
    /\ HasBackward(t) /\ Len(ForwardIndex(t)) = 2
    /\ \A c, c2 \in 0..1 : At(A, <<c, c2, 0>>) # At(A, <<c, c2, 1>>)
    /\ \E c \in 0..1 : At(Predicted(X, t), <<c>>) # 0

----------------------------------------------------------------------------
(* Properties of the data terms *)

\* entity e has no observed entry
UnobservedEntity(e) == \A idx \in position : idx[1] # e

\* time step s has no observed entry
UnobservedStep(s) == \A idx \in position : idx[2] # s

\* C24: for an entity with no observed entry the data terms of the
\* conditional of its row of W are zero, in the precision (var3[:, :, i]) and in
\* the linear term (var4[:, i]), so that only the hyperparameter terms remain;
\* for a time step with no observed entry the data terms of the conditional
\* of its row of X are zero and the precision is Mt plus Lambda_x or the
\* identity; and the run raises no error.
C24_NoData ==
    /\ pc = "Wrow" =>
          \A e \in 0..(dim1 - 1) : UnobservedEntity(e) =>
              \A c, c2 \in 0..(rank - 1) :
                  At(var3, <<c, c2, e>>) = 0 /\ At(var4, <<c, e>>) = 0
    /\ pc = "Xrow" =>
          \A s \in 0..(dim2 - 1) : UnobservedStep(s) =>
              \A c, c2 \in 0..(rank - 1) :
                  At(var3, <<c, c2, s>>) = 0 /\ At(var4, <<c, s>>) = 0
    /\ xdraw.t >= 0 /\ UnobservedStep(xdraw.t) =>
          /\ xdraw.precision.var3 = 1 /\ xdraw.precision.Mt = 1
          /\ xdraw.precision.Lambda_x + xdraw.precision.eye = 0
    /\ pc \notin {"ValueError", "IndexError"}

\* the row of W of an entity with no observed entry is about to be drawn,
\* while the other entity has an observed entry and a data term
C24_Witness ==
    /\ pc = "Wrow" /\ UnobservedEntity(i)
    /\ \E e \in 0..(dim1 - 1) : At(var3, <<0, 0, e>>) # 0 /\ At(var4, <<0, e>>) # 0

----------------------------------------------------------------------------
(* Properties of the collection window *)

\* the number of samples each running sum holds
Summed(n) ==
    n_plus = [W |-> n, A |-> n, X_new |-> n, mat_hat |-> n] /\ sample.n = n

\* C25 as stated: at the return the number of samples in each running sum
\* equals the divisor maxiter2 if and only if 0 < maxiter2 <= maxiter1.
C25_WindowStrict ==
    pc = "done" => (Summed(maxiter2) <=> (0 < maxiter2 /\ maxiter2 <= maxiter1))

\* C25: at the return each running sum holds the samples of the iterations n
\* with n > maxiter1 - maxiter2, whose number equals the divisor maxiter2 if
\* and only if 0 <= maxiter2 <= maxiter1 (none, for maxiter2 = 0); with
\* maxiter2 > maxiter1 every iteration from the first is a collection
\* iteration, maxiter1 samples are summed, and the returned values are these
\* sums divided by maxiter2; with maxiter2 <= 0 nothing is summed and the zero
\* sums are divided by maxiter2.
C25_Window ==
    /\ pc = "done" =>
          /\ Summed(CollectionsIn(maxiter1))
          /\ Summed(maxiter2) <=> (0 <= maxiter2 /\ maxiter2 <= maxiter1)
          /\ ret.W = ArrDiv(sample.W, maxiter2)
          /\ ret.A = ArrDiv(sample.A, maxiter2)
          /\ ret.X_new = ArrDiv(sample.X_new, maxiter2)
          /\ ret.mat_hat = ArrDiv(sample.mat_hat, maxiter2)
          /\ maxiter2 > maxiter1 => Summed(maxiter1)
          /\ maxiter2 <= 0 =>
                /\ Summed(0)
                /\ sample.W = Zeros(<<dim1, rank>>)
                /\ \A idx \in Indices(ret.W) :
                      At(ret.W, idx) = IF maxiter2 = 0 THEN <<0, 0>> ELSE QInt(0)
    /\ pc \notin {"entry", "final", "done"} /\ maxiter2 > maxiter1 => IsCollection(Iteration)

\* a run of two iterations with a collection window of three has returned
\* two thirds of the mean of its two samples of W
C25_Witness ==
    /\ pc = "done" /\ maxiter1 = 2 /\ maxiter2 = 3 /\ Summed(2)
    /\ ret.W # ArrDiv(sample.W, sample.n)
    /\ At(ret.W, <<0, 0>>) = Frac(2, 3)

----------------------------------------------------------------------------
(* Properties of what a call writes *)

\* C26: no step of a call changes dense_mat, sparse_mat or time_lags.  The
\* caller's init["W"] and init["X"] are the arrays the sampler works on: every
\* row draw is written into them, the statements after the loop leave them as
\* the last sweep left them, so that after the call each row holds a draw
\* and not the initial value.  The returned arrays are the quotients of the
\* running sums, arrays created in the call.
C26_Frame ==
    [][/\ UNCHANGED <<dense_mat, sparse_mat, time_lags, init>>
       /\ Caller' = [W |-> W', X |-> X']
       /\ pc = "Wrow" => \E vec \in Arrays(<<rank>>, support.normal) :
                             Caller'.W = SetRow(Caller.W, i, vec)
       /\ pc = "Xrow" /\ pc' # "IndexError" =>
             \E vec \in Arrays(<<rank>>, support.normal) :
                 Caller'.X = SetRow(Caller.X, t, vec)
       /\ pc \notin {"entry", "Wrow", "Xrow"} => Caller' = Caller
       /\ pc' = "done" =>
             /\ Caller'.W \in Arrays(init.W.shape, support.normal)
             /\ Caller'.X \in Arrays(init.X.shape, support.normal)
             /\ ret' = [mat_hat |-> ArrDiv(mat_hat_plus, maxiter2),
                        W       |-> ArrDiv(W_plus, maxiter2),
                        X_new   |-> ArrDiv(X_new_plus, maxiter2),
                        A       |-> ArrDiv(A_plus, maxiter2)]
             /\ ret'.X_new.shape # init.X.shape]_vars

\* a call with two collection iterations has returned: the caller's factors
\* are neither what the caller passed nor what the call returned
C26_Witness ==
    /\ pc = "done" /\ maxiter2 = 2
    /\ Caller.W # init.W /\ Caller.X # init.X
    /\ ret.W # ArrDiv(Caller.W, 1)
    /\ \A r \in 0..(dim2 - 1) : At(ret.X_new, <<r, 0>>) # QInt(At(Caller.X, <<r, 0>>))

\* C27: each component of a sweep changes only its own variables.  The
\* hyperparameter update and the W-row draws leave X, A, Sigma and tau as they
\* are; the temporal-prior update changes neither W, X nor tau; the X-row
\* draws leave W, A, Sigma and tau as they are (the slab is zeroed in a copy
\* of A); the precision step changes, of these, only tau; and a running sum
\* changes only in the step that holds its += statement.
C27_OwnVariables ==
    [][/\ pc \in {"hyper", "Wrow"} => UNCHANGED <<X, A, Sigma, tau, sums>>
       /\ pc = "Wplus" =>
             UNCHANGED <<W, X, A, Sigma, tau, A_plus, X_new_plus, mat_hat_plus>>
       /\ pc = "prior" => UNCHANGED <<W, X, tau, W_plus, X_new_plus, mat_hat_plus>>
       /\ pc = "Xrow" => UNCHANGED <<W, A, Sigma, tau, sums>>
       /\ pc = "extend" => UNCHANGED <<W, X, A, Sigma, tau, W_plus, A_plus>>
       /\ pc = "tau" => UNCHANGED <<W, X, A, Sigma, sums>>
       /\ pc \in {"entry", "final"} => UNCHANGED <<A, Sigma>>
       /\ pc = "final" => UNCHANGED <<W, X, tau, sums>>
       /\ X_plus' = Zeros(<<dim2', rank>>)]_vars

\* in a collection iteration the first row of X has been drawn with a
\* forward term whose slab of A is not zero
C27_Witness ==
    /\ pc = "Xrow" /\ t = 1 /\ xdraw.t = 0 /\ xdraw.index = <<0>>
    /\ At(A, <<0, 0, 0>>) # 0
    /\ IsCollection(Iteration) /\ n_plus.A >= 1

----------------------------------------------------------------------------
(* Properties of what a draw depends on *)

\* the values a row of X is given for comparison
OtherRows == Arrays(<<rank>>, {0, 1})

\* C28: with pairwise distinct lags the conditional from which X[t] is drawn
\* does not depend on the value X[t] has before the draw.  For every other
\* value of row t the backward vector and the residual of every forward term
\* are the same; the remaining terms (var3, var4, Mt, Lambda_x) are not
\* computed from X.
C28_OwnRowIgnored ==
    pc = "Xrow" /\ (\A j, k \in 1..d : j # k => time_lags[j] # time_lags[k]) =>
        \A vec \in OtherRows :
            /\ Predicted(SetRow(X, t, vec), t) = Predicted(X, t)
            /\ \A n \in 1..Len(ForwardIndex(t)) :
                  Residual(SetRow(X, t, vec), t, ForwardIndex(t)[n])
                      = Residual(X, t, ForwardIndex(t)[n])
            /\ t \notin BackwardRows(t)

\* a row of X with a backward and a forward term is about to be drawn; the
\* forward term reads the row itself, and with the slab of its lag left in
\* place another value of the row would give another product
C28_Witness ==
    /\ pc = "Xrow" /\ d = 2 /\ HasBackward(t) /\ ForwardIndex(t) # <<>>
    /\ \A n \in 1..Len(ForwardIndex(t)) : t \in ForwardRows(t, ForwardIndex(t)[n])
    /\ \E vec \in OtherRows :
          matmul(ten2mat(A, 0), DesignRow(SetRow(X, t, vec), t + time_lags[ForwardIndex(t)[1] + 1]))
              # matmul(ten2mat(A, 0), DesignRow(X, t + time_lags[ForwardIndex(t)[1] + 1]))

----------------------------------------------------------------------------
(* Properties of the precision tau *)

\* the sum of squares of sparse_mat - W X^T over the observed entries
Residuals ==
    LET err(idx) == At(sparse_mat, idx) - At(W, <<idx[1], 0>>) * At(X, <<idx[2], 0>>)
    IN  SumTo(LAMBDA p : IF CUnravel(sparse_mat.shape, p) \in position
                         THEN err(CUnravel(sparse_mat.shape, p))
                              * err(CUnravel(sparse_mat.shape, p))
                         ELSE 0,
              dim1 * dim2)

\* C29: in iteration n the terms of the W-row draws and those of the X-row
\* draws are built with one value of tau, the one the Gamma routine returned
\* at the end of iteration n - 1 (1 for n = 1): tau is 1 after the setup and
\* no step but the Gamma draw changes it.  The Gamma draw comes after W X^T
\* has been recomputed from the W and X of iteration n, and its rate is beta
\* plus half the squared residual of this W X^T.
C29_OneTau ==
    [][/\ pc = "entry" => tau' = 1
       /\ pc \notin {"entry", "tau"} => tau' = tau
       /\ pc' \in {"Wrow", "Wplus"} =>
             \A r \in 0..(dim1 - 1) :
                 /\ At(var3', <<0, 0, r>>)
                       = tau' * SumTo(LAMBDA s : At(binary_mat, <<r, s>>)
                                                * At(X', <<s, 0>>) * At(X', <<s, 0>>), dim2)
                 /\ At(var4', <<0, r>>)
                       = tau' * SumTo(LAMBDA s : At(X', <<s, 0>>)
                                                * At(sparse_mat, <<r, s>>), dim2)
       /\ pc' \in {"Xrow", "extend", "tau"} =>
             \A s \in 0..(dim2 - 1) :
                 /\ At(var3', <<0, 0, s>>)
                       = tau' * SumTo(LAMBDA r : At(binary_mat, <<r, s>>)
                                                * At(W', <<r, 0>>) * At(W', <<r, 0>>), dim1)
                 /\ At(var4', <<0, s>>)
                       = tau' * SumTo(LAMBDA r : At(W', <<r, 0>>)
                                                * At(sparse_mat, <<r, s>>), dim1)
       /\ pc = "tau" =>
             /\ mat_hat = matmul(W, T(X))
             /\ GammaRate = Frac(2 + 1000000 * Residuals, 2000000)
             /\ tau' \in support.positive]_vars

\* the rows of X of the second iteration are about to be drawn with the
\* tau = 2 of the first iteration, as the row of W was, and the W X^T of
\* the first iteration differs from the product of the W and X of now
C29_Witness ==
    /\ pc = "Xrow" /\ t = 0 /\ iters = 1 /\ rank = 1
    /\ tau = 2
    /\ At(var3, <<0, 0, 0>>) = 2
    /\ mat_hat # matmul(W, T(X))

----------------------------------------------------------------------------
(* Properties of the validation error *)

\* the sum of squares of dense_mat - mat_hat over the held-out entries
HeldOutSquares ==
    LET err(idx) == At(dense_mat, idx) - At(mat_hat, idx)
    IN  SumTo(LAMBDA p : IF CUnravel(dense_mat.shape, p) \in pos
                         THEN err(CUnravel(dense_mat.shape, p))
                              * err(CUnravel(dense_mat.shape, p))
                         ELSE 0,
              dim1 * dim2)

\* C30: the validation RMSE is computed in every iteration, printed or not,
\* as the squared error over the held-out entries divided by their number,
\* with no guard for an empty set: the divisor is not zero iff some entry has
\* dense_mat # 0 and sparse_mat = 0, and when there is none the RMSE of every
\* iteration and the final MAPE and RMSE are 0 / 0 (nan), while the run goes
\* on to the return of its four outputs.
C30_EmptyHeldOut ==
    /\ pc # "entry" =>
          (pos # {} <=> \E idx \in Indices(dense_mat) :
                            At(dense_mat, idx) # 0 /\ At(sparse_mat, idx) = 0)
    /\ (pc \in {"hyper", "Wrow", "Wplus", "prior", "Xrow"} /\ iters > 0)
         \/ pc \in {"final", "done"} =>
          /\ rmse = IF pos = {} THEN <<0, 0>> ELSE Frac(HeldOutSquares, Cardinality(pos))
          /\ QFinite(rmse) <=> pos # {}
          /\ Progress = <<>>
    /\ pc = "done" /\ maxiter1 >= FinalMin =>
          /\ Len(Finals) = 1
          /\ QFinite(Finals[1].mape) <=> pos # {}
          /\ QFinite(Finals[1].rmse) <=> pos # {}
          /\ pos = {} => Finals[1].mape = <<0, 0>> /\ Finals[1].rmse = <<0, 0>>
    /\ pc = "done" =>
          /\ ret.mat_hat.shape = <<dim1, dim2 + 1>> /\ ret.W.shape = <<dim1, rank>>
          /\ ret.X_new.shape = <<dim2 + 1, rank>> /\ ret.A.shape = <<rank, rank, d>>
          /\ \A idx \in Indices(ret.mat_hat) : QFinite(At(ret.mat_hat, idx))
    /\ pc \notin {"ValueError", "IndexError"}

\* a run of FinalMin iterations on data with an observed entry and no
\* held-out entry has returned, with nan as the last RMSE and as the MAPE and
\* RMSE of the summary
C30_Witness ==
    /\ pc = "done" /\ pos = {} /\ position # {}
    /\ rmse = <<0, 0>>
    /\ Finals = <<[kind |-> "Imputation", mape |-> <<0, 0>>, rmse |-> <<0, 0>>]>>
    /\ ret.W.shape = <<dim1, rank>>
====
